---------------------------- MODULE Spec2Model ----------------------------
(***************************************************************************)
(* State-machine model of the bookmark worker (src/workers_v1.01.09.js):   *)
(* the API dispatcher with its protected-route gate, the session-cookie    *)
(* auth (checkAuth / handleLogin / handleLogout), and the CRUD handlers    *)
(* over the relational store (sites, catalogs, pending_sites) and the      *)
(* key-value stores (NAV_AUTH, NAV_SETTINGS).                              *)
(*                                                                         *)
(* Strings that the code takes apart (URL paths, Cookie headers, store     *)
(* keys) are sequences of tokens: a token is a separator character, one    *)
(* digit, or a run of letters the code never looks inside.                 *)
(***************************************************************************)
EXTENDS Integers, Sequences, FiniteSets, TLC

VARIABLES
    NAV_AUTH,       \* key-value store: key (token sequence) -> [value, ttl]
    NAV_SETTINGS,   \* key-value store: setting key -> value
    sites,          \* table sites: set of rows
    catalogs,       \* table catalogs: set of rows
    pending_sites,  \* table pending_sites: set of rows
    seq,            \* AUTOINCREMENT counters (sqlite_sequence), one per table
    issued,         \* how many session identifiers randomUUID has handed out
    request,        \* the request handled by the last step
    response,       \* the response the last step returned
    handler,        \* the handler the dispatcher chose for it ("-" when none ran)
    protected,      \* isProtected as computed for it by api.handleRequest
    kvReads,        \* NAV_AUTH keys read while handling it
    loggedOut,      \* session identifiers that were valid when their logout completed
    inflight,       \* a request suspended at an await: its handler, position and locals
    AA,             \* notes app: key-value store of notes and title styles
    verified        \* notes app: callers whose /api/verifyPassword answered valid

vars == <<NAV_AUTH, NAV_SETTINGS, sites, catalogs, pending_sites, seq, issued,
          request, response, handler, protected, kvReads, loggedOut,
          inflight, AA, verified>>

None == "<none>"          \* JS undefined, for a value that is a plain string
Null == "<null>"          \* JS null, for a value that is a plain string
Absent == <<"<absent>">>  \* undefined / null for a value that is a token sequence

-----------------------------------------------------------------------------
(* Bounds of the model *)

MaxSessions == 2    \* session identifiers randomUUID can hand out
MaxRows == 2        \* rows a table can hold / ids AUTOINCREMENT can hand out

-----------------------------------------------------------------------------
(* Token-sequence helpers: the String methods the code uses *)

Digits == {"0", "1", "2", "3", "4", "5", "6", "7", "8", "9"}

\* /^\d+$/.test(s)
AllDigits(s) == Len(s) > 0 /\ \A i \in 1..Len(s) : s[i] \in Digits

\* s.startsWith(p)
StartsWith(s, p) == Len(s) >= Len(p) /\ SubSeq(s, 1, Len(p)) = p

\* s.indexOf(p), 0 when p does not occur (positions are 1-based here)
IndexOf(s, p) ==
    LET hits == {i \in 1..(Len(s) - Len(p) + 1) : SubSeq(s, i, i + Len(p) - 1) = p}
    IN  IF hits = {} THEN 0 ELSE CHOOSE i \in hits : \A j \in hits : i <= j

\* s.replace(p, '') with a string pattern: the first occurrence only
ReplaceFirst(s, p) ==
    LET i == IndexOf(s, p)
    IN  IF i = 0 THEN s ELSE SubSeq(s, 1, i - 1) \o SubSeq(s, i + Len(p), Len(s))

\* s.split(sep) for a one-character separator: always at least one piece
RECURSIVE Split(_, _)
Split(s, sep) ==
    LET i == IndexOf(s, <<sep>>)
    IN  IF i = 0 THEN <<s>>
        ELSE <<SubSeq(s, 1, i - 1)>> \o Split(SubSeq(s, i + 1, Len(s)), sep)

\* s.trim()
RECURSIVE Trim(_)
Trim(s) ==
    IF s # <<>> /\ Head(s) = " " THEN Trim(Tail(s))
    ELSE IF s # <<>> /\ s[Len(s)] = " " THEN Trim(SubSeq(s, 1, Len(s) - 1))
    ELSE s

-----------------------------------------------------------------------------
(* Route matcher: api.handleRequest, lines 93-138 *)

DigitsMarker == "\\d+"

\* protectedRoutes without its entry 'POST /catalogs/import'
protectedRoutes_NoCategoryImport == <<
    <<"POST",   <<"/", "settings">> >>,
    <<"POST",   <<"/", "catalogs">> >>,
    <<"PUT",    <<"/", "catalogs">> >>,
    <<"DELETE", <<"/", "catalogs">> >>,
    <<"POST",   <<"/", "catalogs", "/", "reorder">> >>,
    <<"POST",   <<"/", "catalogs", "/", "migrate">> >>,
    <<"PUT",    <<"/", "catalogs", "/", DigitsMarker, "/", "toggle_privacy">> >>,
    <<"POST",   <<"/", "config">> >>,
    <<"POST",   <<"/", "config", "/", "reorder">> >>,
    <<"DELETE", <<"/", "config", "/", "all">> >>,
    <<"PUT",    <<"/", "config", "/", DigitsMarker>> >>,
    <<"DELETE", <<"/", "config", "/", DigitsMarker>> >>,
    <<"PUT",    <<"/", "config", "/", DigitsMarker, "/", "toggle_privacy">> >>,
    <<"PUT",    <<"/", "pending", "/", DigitsMarker>> >>,
    <<"DELETE", <<"/", "pending", "/", DigitsMarker>> >>,
    <<"POST",   <<"/", "config", "/", "import">> >>,
    <<"GET",    <<"/", "config", "/", "export">> >>,
    <<"GET",    <<"/", "pending">> >>,
    <<"GET",    <<"/", "catalogs", "/", "export">> >>,
    <<"GET",    <<"/", "private">> >> >>

\* the protectedRoutes table, each entry already split on its one space
protectedRoutes == <<
    <<"POST",   <<"/", "settings">> >>,
    <<"POST",   <<"/", "catalogs">> >>,
    <<"PUT",    <<"/", "catalogs">> >>,
    <<"DELETE", <<"/", "catalogs">> >>,
    <<"POST",   <<"/", "catalogs", "/", "reorder">> >>,
    <<"POST",   <<"/", "catalogs", "/", "migrate">> >>,
    <<"PUT",    <<"/", "catalogs", "/", DigitsMarker, "/", "toggle_privacy">> >>,
    <<"POST",   <<"/", "config">> >>,
    <<"POST",   <<"/", "config", "/", "reorder">> >>,
    <<"DELETE", <<"/", "config", "/", "all">> >>,
    <<"PUT",    <<"/", "config", "/", DigitsMarker>> >>,
    <<"DELETE", <<"/", "config", "/", DigitsMarker>> >>,
    <<"PUT",    <<"/", "config", "/", DigitsMarker, "/", "toggle_privacy">> >>,
    <<"PUT",    <<"/", "pending", "/", DigitsMarker>> >>,
    <<"DELETE", <<"/", "pending", "/", DigitsMarker>> >>,
    <<"POST",   <<"/", "config", "/", "import">> >>,
    <<"GET",    <<"/", "config", "/", "export">> >>,
    <<"GET",    <<"/", "pending">> >>,
    <<"GET",    <<"/", "catalogs", "/", "export">> >>,
    <<"POST",   <<"/", "catalogs", "/", "import">> >>,
    <<"GET",    <<"/", "private">> >> >>

\* RegexTest without the closing anchor: a pattern that is used up matches
\* whatever is left of the path
RECURSIVE RegexTest_Unanchored(_, _)
RegexTest_Unanchored(pattern, path) ==
    IF pattern = <<>> THEN TRUE
    ELSE IF path = <<>> THEN FALSE
    ELSE IF Head(pattern) = DigitsMarker
         THEN /\ Head(path) \in Digits
              /\ \/ RegexTest_Unanchored(Tail(pattern), Tail(path))
                 \/ RegexTest_Unanchored(pattern, Tail(path))
         ELSE /\ Head(pattern) = Head(path)
              /\ RegexTest_Unanchored(Tail(pattern), Tail(path))

\* new RegExp('^' + pattern + '$').test(path): literal tokens match themselves,
\* the \d+ marker matches one or more digits, the match is anchored at both ends
RECURSIVE RegexTest(_, _)
RegexTest(pattern, path) ==
    IF pattern = <<>> THEN path = <<>>
    ELSE IF path = <<>> THEN FALSE
    ELSE IF Head(pattern) = DigitsMarker
         THEN /\ Head(path) \in Digits
              /\ \/ RegexTest(Tail(pattern), Tail(path))
                 \/ RegexTest(pattern, Tail(path))
         ELSE /\ Head(pattern) = Head(path)
              /\ RegexTest(Tail(pattern), Tail(path))

\* routePath.includes('\\d+')
IsRegexRoute(routePath) == \E i \in 1..Len(routePath) : routePath[i] = DigitsMarker

\* the callback without the comparison of the methods
RouteMatches_AnyMethod(route, method, path) ==
    IF IsRegexRoute(route[2]) THEN RegexTest(route[2], path) ELSE route[2] = path

\* the callback of protectedRoutes.some(...)
RouteMatches(route, method, path) ==
    /\ route[1] = method
    /\ IF IsRegexRoute(route[2]) THEN RegexTest(route[2], path)
                                 ELSE route[2] = path

isProtected(method, path) ==
    \E r \in 1..Len(protectedRoutes) : RouteMatches(protectedRoutes[r], method, path)

\* url.pathname.replace('/api', '')
ApiPath(pathname) == ReplaceFirst(pathname, <<"/", "api">>)

\* url.pathname.split('/').pop()
LastSegment(pathname) ==
    LET parts == Split(pathname, "/") IN parts[Len(parts)]

-----------------------------------------------------------------------------
(* Dispatch: the if-chain of api.handleRequest, lines 151-247 *)

MethodNotAllowed == "errorResponse 405"
NotFound == "errorResponse 404"

CatalogToggleRe == <<"/", "catalogs", "/", DigitsMarker, "/", "toggle_privacy">>
ConfigToggleRe == <<"/", "config", "/", DigitsMarker, "/", "toggle_privacy">>

\* The handler the chain reaches for a method, a path (the /api prefix removed)
\* and id (the last segment of the pathname), in the order the code tests.
Dispatch(method, path, id) ==
    IF path = <<"/", "settings">> THEN
        CASE method = "GET" -> "getSettings"
          [] method = "POST" -> "updateSettings"
          [] OTHER -> MethodNotAllowed
    ELSE IF path = <<"/", "catalogs">> THEN
        CASE method = "GET" -> "getCatalogs"
          [] method = "POST" -> "createCatalog"
          [] method = "PUT" -> "updateCatalog"
          [] method = "DELETE" -> "deleteCatalog"
          [] OTHER -> MethodNotAllowed
    ELSE IF path = <<"/", "catalogs", "/", "reorder">> /\ method = "POST" THEN "reorderCatalogs"
    ELSE IF path = <<"/", "catalogs", "/", "migrate">> /\ method = "POST" THEN "migrateCatalogs"
    ELSE IF RegexTest(CatalogToggleRe, path) /\ method = "PUT" THEN "toggleCatalogPrivacy"
    ELSE IF path = <<"/", "config">> THEN
        CASE method = "GET" -> "getConfig"
          [] method = "POST" -> "createConfig"
          [] OTHER -> MethodNotAllowed
    ELSE IF path = <<"/", "config", "/", "reorder">> /\ method = "POST" THEN "reorderConfig"
    ELSE IF path = <<"/", "config", "/", "all">> /\ method = "DELETE" THEN "deleteAllConfigs"
    ELSE IF path = <<"/", "config", "/", "submit">> /\ method = "POST" THEN "submitConfig"
    ELSE IF path = <<"/", "config", "/">> \o id /\ AllDigits(id) THEN
        CASE method = "PUT" -> "updateConfig"
          [] method = "DELETE" -> "deleteConfig"
          [] OTHER -> MethodNotAllowed
    ELSE IF RegexTest(ConfigToggleRe, path) /\ method = "PUT" THEN "toggleSitePrivacy"
    ELSE IF path = <<"/", "pending", "/">> \o id /\ AllDigits(id) THEN
        CASE method = "PUT" -> "approvePendingConfig"
          [] method = "DELETE" -> "rejectPendingConfig"
          [] OTHER -> MethodNotAllowed
    ELSE IF path = <<"/", "config", "/", "import">> /\ method = "POST" THEN "importConfig"
    ELSE IF path = <<"/", "config", "/", "export">> /\ method = "GET" THEN "exportConfig"
    ELSE IF path = <<"/", "pending">> /\ method = "GET" THEN "getPendingConfig"
    ELSE IF path = <<"/", "private">> /\ method = "GET" THEN "getPrivateConfig"
    ELSE IF path = <<"/", "catalogs", "/", "export">> /\ method = "GET" THEN "exportCategory"
    ELSE IF path = <<"/", "catalogs", "/", "import">> /\ method = "POST" THEN "importCategory"
    ELSE NotFound

\* path.split('/')[2]: the id segment the two toggle branches pass on
Segment2(path) ==
    LET parts == Split(path, "/") IN IF Len(parts) >= 3 THEN parts[3] ELSE Absent

-----------------------------------------------------------------------------
(* Cookie parsing: admin.checkAuth lines 948-958, admin.handleLogout 1021-1028 *)

\* const [key, value] = cookie.trim().split('='): value is the piece between
\* the first and the second '=', undefined when the pair has no '='
CookiePair(cookie) ==
    LET parts == Split(Trim(cookie), "=")
    IN  [key |-> parts[1], value |-> IF Len(parts) >= 2 THEN parts[2] ELSE Absent]

\* cookieHeader.split(';').reduce(...)['sessionId']: a later pair of the same
\* name overwrites an earlier one; undefined when no pair is named sessionId
RECURSIVE LookupCookie(_, _, _)
LookupCookie(pairs, name, acc) ==
    IF pairs = <<>> THEN acc
    ELSE LET kv == CookiePair(Head(pairs))
         IN  LookupCookie(Tail(pairs), name, IF kv.key = name THEN kv.value ELSE acc)

SessionIdOf(cookieHeader) ==
    LookupCookie(Split(cookieHeader, ";"), <<"sessionId">>, Absent)

\* !x for a header or a cookie value: absent, undefined or the empty string
Falsy(x) == x = Absent \/ x = <<>>

\* the key `session:${sessionId}`
SessionKey(sessionId) == <<"session:">> \o sessionId

-----------------------------------------------------------------------------
(* Requests and responses *)

\* A JSON request body: json is "object", "array", "null" or "malformed";
\* an object carries its members as further fields, an array its items.
Field(body, f) == IF body.json = "object" /\ f \in DOMAIN body THEN body[f] ELSE None

\* a numeric member; 0 stands for a missing one (both are falsy)
NumField(body, f) == IF body.json = "object" /\ f \in DOMAIN body THEN body[f] ELSE 0

\* an array member; the string None stands for a missing or non-array one
IsArrayField(body, f) == body.json = "object" /\ f \in DOMAIN body

\* !x for a string member
FalsyStr(x) == x \in {None, Null, ""}

NoSetCookie == [name |-> "-", value |-> Absent, HttpOnly |-> FALSE, Secure |-> FALSE,
                Path |-> "-", MaxAge |-> -1]

\* new Response(JSON.stringify(body), {status, headers: {'Content-Type': 'application/json'}})
Json(status, body) ==
    [status |-> status, type |-> "application/json", body |-> body, setCookie |-> NoSetCookie]

\* api.errorResponse, lines 854-859
errorResponse(message, status) == Json(status, [code |-> status, message |-> message])

\* a page or a plain-text answer
Page(status, type, what) ==
    [status |-> status, type |-> type, body |-> [page |-> what], setCookie |-> NoSetCookie]

NoResponse == Page(0, "-", "-")
\* no request is suspended
Idle == [pc |-> "idle"]
NoBody == [json |-> "null"]
NoQuery == [catalog |-> None, keyword |-> None, name |-> None, page |-> 1, pageSize |-> 10]
NoRequest == [method |-> "-", pathname |-> <<>>, cookie |-> Absent, query |-> NoQuery,
              body |-> NoBody, fault |-> "none"]

-----------------------------------------------------------------------------
(* Session store access: NAV_AUTH.get / put / delete *)

\* NAV_AUTH.get(key): the stored value, null when the key is absent
KvGet(kv, key) == IF key \in DOMAIN kv THEN kv[key].value ELSE Null

\* NAV_AUTH.put(key, value, {expirationTtl})
KvPut(kv, key, value, ttl) ==
    [k \in DOMAIN kv \cup {key} |-> IF k = key THEN [value |-> value, ttl |-> ttl] ELSE kv[k]]

\* NAV_AUTH.delete(key): deleting an absent key changes nothing
KvDelete(kv, key) == [k \in DOMAIN kv \ {key} |-> kv[k]]

\* checkAuth that lets a request without a Cookie header through
checkAuth_NoHeaderPasses(cookieHeader, fault, kv) ==
    IF Falsy(cookieHeader) THEN [ok |-> TRUE, reads |-> {}]
    ELSE LET sessionId == SessionIdOf(cookieHeader) IN
         IF Falsy(sessionId) THEN [ok |-> FALSE, reads |-> {}]
         ELSE IF fault = "NAV_AUTH" THEN [ok |-> FALSE, reads |-> {SessionKey(sessionId)}]
         ELSE [ok |-> KvGet(kv, SessionKey(sessionId)) = "valid",
               reads |-> {SessionKey(sessionId)}]

\* checkAuth that accepts any cookie that carries a sessionId, without the
\* comparison with the value in the store
checkAuth_AnySessionId(cookieHeader, fault, kv) ==
    IF Falsy(cookieHeader) THEN [ok |-> FALSE, reads |-> {}]
    ELSE LET sessionId == SessionIdOf(cookieHeader) IN
         IF Falsy(sessionId) THEN [ok |-> FALSE, reads |-> {}]
         ELSE [ok |-> TRUE, reads |-> {SessionKey(sessionId)}]

\* checkAuth that accepts any request with a Cookie header
checkAuth_HeaderOnly(cookieHeader, fault, kv) ==
    [ok |-> ~Falsy(cookieHeader), reads |-> {}]

\* checkAuth whose catch block answers true
checkAuth_FaultAllows(cookieHeader, fault, kv) ==
    IF Falsy(cookieHeader) THEN [ok |-> FALSE, reads |-> {}]
    ELSE LET sessionId == SessionIdOf(cookieHeader) IN
         IF Falsy(sessionId) THEN [ok |-> FALSE, reads |-> {}]
         ELSE IF fault = "NAV_AUTH" THEN [ok |-> TRUE, reads |-> {SessionKey(sessionId)}]
         ELSE [ok |-> KvGet(kv, SessionKey(sessionId)) = "valid",
               reads |-> {SessionKey(sessionId)}]

\* admin.checkAuth, lines 946-968: the verdict and the NAV_AUTH keys it read
checkAuth(cookieHeader, fault, kv) ==
    IF Falsy(cookieHeader) THEN [ok |-> FALSE, reads |-> {}]
    ELSE LET sessionId == SessionIdOf(cookieHeader) IN
         IF Falsy(sessionId) THEN [ok |-> FALSE, reads |-> {}]
         ELSE IF fault = "NAV_AUTH" THEN [ok |-> FALSE, reads |-> {SessionKey(sessionId)}]
         ELSE [ok |-> KvGet(kv, SessionKey(sessionId)) = "valid",
               reads |-> {SessionKey(sessionId)}]

-----------------------------------------------------------------------------
(* The relational store NAV_DB.  A row of sites is                          *)
(* [id, name, url, catelog, sort_order, is_private], a row of catalogs      *)
(* [id, name, sort_order, is_private], a row of pending_sites               *)
(* [id, name, url, catelog].  The columns logo, desc, icon and the          *)
(* timestamps are passed through by the code and are left out; sort_order 0 *)
(* stands for a column left at its default, and a larger id for a later     *)
(* create_time.  The store as the handlers see it is the record             *)
(* [sites, catalogs, pending_sites, seq, settings].                         *)

DigitSeq == <<"0", "1", "2", "3", "4", "5", "6", "7", "8", "9">>
DigitVal(d) == (CHOOSE i \in 1..10 : DigitSeq[i] = d) - 1

\* the integer a bound id text is compared as (column affinity INTEGER)
RECURSIVE ToInt(_)
ToInt(s) == IF s = <<>> THEN 0 ELSE 10 * ToInt(SubSeq(s, 1, Len(s) - 1)) + DigitVal(s[Len(s)])

MaxOf(S) == IF S = {} THEN 0 ELSE CHOOSE m \in S : \A x \in S : x <= m

\* (SELECT MAX(sort_order)).maxOrder || 0
MaxSortOrder(rows) == MaxOf({r.sort_order : r \in rows})

\* ORDER BY: rows by ascending key, key a function of the row
RECURSIVE OrderKeyed(_, _)
OrderKeyed(rows, key) ==
    IF rows = {} THEN <<>>
    ELSE LET first == CHOOSE r \in rows : \A o \in rows : key[r] <= key[o]
         IN  <<first>> \o OrderKeyed(rows \ {first}, key)

OrderBy(rows, Key(_)) == OrderKeyed(rows, [r \in rows |-> Key(r)])

IdSpan == 1000
\* ORDER BY sort_order ASC, create_time DESC
BySortThenNewest(r) == r.sort_order * IdSpan - r.id
\* ORDER BY sort_order ASC
BySort(r) == r.sort_order * IdSpan + r.id
\* ORDER BY create_time DESC
ByNewest(r) == 0 - r.id

\* LIMIT ? OFFSET ?
Slice(rows, limit, offset) ==
    IF offset >= Len(rows) THEN <<>>
    ELSE SubSeq(rows, offset + 1, IF offset + limit < Len(rows) THEN offset + limit ELSE Len(rows))

\* value LIKE '%keyword%': names are atoms here, so a keyword is found in a
\* value exactly when it is the whole value
Like(value, keyword) == value = keyword

Out(st, resp) == [st |-> st, resp |-> resp]

\* request.json() resolves; false when the body is not JSON (it throws)
Parses(body) == body.json # "malformed"
\* const {a, b} = await request.json() does not throw
Destructures(body) == body.json \in {"object", "array"}

\* INSERT INTO catalogs ...: a new row with the next AUTOINCREMENT id
InsertCatalog(st, name, sort_order) ==
    [st EXCEPT !.catalogs = @ \cup {[id |-> st.seq.catalogs + 1, name |-> name,
                                     sort_order |-> sort_order, is_private |-> 0]},
               !.seq.catalogs = @ + 1]

\* INSERT INTO sites ...
InsertSite(st, name, url, catelog, sort_order, is_private) ==
    [st EXCEPT !.sites = @ \cup {[id |-> st.seq.sites + 1, name |-> name, url |-> url,
                                  catelog |-> catelog, sort_order |-> sort_order,
                                  is_private |-> is_private]},
               !.seq.sites = @ + 1]

\* INSERT INTO pending_sites ...
InsertPending(st, name, url, catelog) ==
    [st EXCEPT !.pending_sites = @ \cup {[id |-> st.seq.pending_sites + 1, name |-> name,
                                          url |-> url, catelog |-> catelog]},
               !.seq.pending_sites = @ + 1]

\* api.ensureCatalogExists, lines 744-760: INSERT OR IGNORE on the unique name
\* (a store without the catalogs table throws 'no such table: catalogs', which
\* the catch of lines 753-756 swallows)
ensureCatalogExists(st, catalogName) ==
    IF FalsyStr(catalogName) THEN st
    ELSE IF "catalogs" \notin DOMAIN st.seq THEN st
    ELSE IF \E c \in st.catalogs : c.name = catalogName THEN st
    ELSE InsertCatalog(st, catalogName, MaxSortOrder(st.catalogs) + 1)

\* getConfig with the offset computed as page * pageSize
getConfig_SkipsFirstPage(st, req) ==
    LET q == req.query
        inCatalog(r) == FalsyStr(q.catalog) \/ r.catelog = q.catalog
        hasKeyword(r) == FalsyStr(q.keyword) \/ Like(r.name, q.keyword)
                             \/ Like(r.url, q.keyword) \/ Like(r.catelog, q.keyword)
        hits == {r \in st.sites : inCatalog(r) /\ hasKeyword(r)}
        results == Slice(OrderBy(hits, BySortThenNewest), q.pageSize, q.page * q.pageSize)
    IN  IF req.fault = "NAV_DB"
        THEN Out(st, errorResponse("Failed to fetch config data: <e.message>", 500))
        ELSE Out(st, Json(200, [code |-> 200, data |-> results, total |-> Cardinality(hits),
                                page |-> q.page, pageSize |-> q.pageSize]))

\* api.getConfig, lines 252-304
getConfig(st, req) ==
    LET q == req.query
        inCatalog(r) == FalsyStr(q.catalog) \/ r.catelog = q.catalog
        hasKeyword(r) == FalsyStr(q.keyword) \/ Like(r.name, q.keyword)
                             \/ Like(r.url, q.keyword) \/ Like(r.catelog, q.keyword)
        hits == {r \in st.sites : inCatalog(r) /\ hasKeyword(r)}
        results == Slice(OrderBy(hits, BySortThenNewest), q.pageSize, (q.page - 1) * q.pageSize)
    IN  IF req.fault = "NAV_DB"
        THEN Out(st, errorResponse("Failed to fetch config data: <e.message>", 500))
        ELSE Out(st, Json(200, [code |-> 200, data |-> results, total |-> Cardinality(hits),
                                page |-> q.page, pageSize |-> q.pageSize]))

\* api.getPrivateConfig, lines 305-330
getPrivateConfig(st, req) ==
    LET q == req.query
        hits == {r \in st.sites : r.is_private = 1}
        results == Slice(OrderBy(hits, ByNewest), q.pageSize, (q.page - 1) * q.pageSize)
    IN  IF req.fault = "NAV_DB"
        THEN Out(st, errorResponse("Failed to fetch private config data: <e.message>", 500))
        ELSE Out(st, Json(200, [code |-> 200, data |-> results, total |-> Cardinality(hits),
                                page |-> q.page, pageSize |-> q.pageSize]))

\* api.getPendingConfig, lines 331-356
getPendingConfig(st, req) ==
    LET q == req.query
        results == Slice(OrderBy(st.pending_sites, ByNewest), q.pageSize, (q.page - 1) * q.pageSize)
    IN  IF req.fault = "NAV_DB"
        THEN Out(st, errorResponse("Failed to fetch pending config data: <e.message>", 500))
        ELSE Out(st, Json(200, [code |-> 200, data |-> results,
                                total |-> Cardinality(st.pending_sites),
                                page |-> q.page, pageSize |-> q.pageSize]))

\* api.approvePendingConfig, lines 357-383
approvePendingConfig(st, req, id) ==
    LET results == {r \in st.pending_sites : r.id = ToInt(id)} IN
    IF req.fault = "NAV_DB"
    THEN Out(st, errorResponse("Failed to approve pending config : <e.message>", 500))
    ELSE IF results = {} THEN Out(st, errorResponse("Pending config not found", 404))
    ELSE LET config == CHOOSE r \in results : TRUE
             st1 == ensureCatalogExists(st, config.catelog)
             st2 == InsertSite(st1, config.name, config.url, config.catelog, 0, 0)
             st3 == [st2 EXCEPT !.pending_sites = {r \in @ : r.id # ToInt(id)}]
         IN  Out(st3, Json(200, [code |-> 200, message |-> "Pending config approved successfully"]))

\* api.rejectPendingConfig, lines 384-394
rejectPendingConfig(st, req, id) ==
    IF req.fault = "NAV_DB"
    THEN Out(st, errorResponse("Failed to reject pending config: <e.message>", 500))
    ELSE Out([st EXCEPT !.pending_sites = {r \in @ : r.id # ToInt(id)}],
             Json(200, [code |-> 200, message |-> "Pending config rejected successfully"]))

\* api.submitConfig, lines 395-423
submitConfig(st, req) ==
    LET b == req.body
        name == Field(b, "name")  url == Field(b, "url")  catelog == Field(b, "catelog")
    IN  IF ~Destructures(b)
        THEN Out(st, errorResponse("Failed to submit config : <e.message>", 500))
        ELSE IF FalsyStr(name) \/ FalsyStr(url) \/ FalsyStr(catelog)
        THEN Out(st, errorResponse("Name, URL and Catelog are required", 400))
        ELSE IF req.fault = "NAV_DB"
        THEN Out(st, errorResponse("Failed to submit config : <e.message>", 500))
        ELSE Out(InsertPending(st, name, url, catelog),
                 Json(201, [code |-> 201,
                            message |-> "Config submitted successfully, waiting for admin approve"]))

\* api.createConfig, lines 425-462
createConfig(st, req) ==
    LET b == req.body
        name == Field(b, "name")  url == Field(b, "url")  catelog == Field(b, "catelog")
    IN  IF ~Destructures(b)
        THEN Out(st, errorResponse("Failed to create config : <e.message>", 500))
        ELSE IF FalsyStr(name) \/ FalsyStr(url) \/ FalsyStr(catelog)
        THEN Out(st, errorResponse("Name, URL and Catelog are required", 400))
        ELSE IF req.fault = "NAV_DB"
        THEN Out(st, errorResponse("Failed to create config : <e.message>", 500))
        ELSE LET st1 == ensureCatalogExists(st, catelog)
                 newSortOrder == MaxSortOrder(st1.sites) + 1
             IN  Out(InsertSite(st1, name, url, catelog, newSortOrder, 0),
                     Json(201, [code |-> 201, message |-> "Config created successfully"]))

\* api.updateConfig, lines 464-484
updateConfig(st, req, id) ==
    LET b == req.body
        name == Field(b, "name")  url == Field(b, "url")  catelog == Field(b, "catelog")
    IN  IF ~Destructures(b) \/ req.fault = "NAV_DB"
        THEN Out(st, errorResponse("Failed to update config: <e.message>", 500))
        ELSE LET st1 == ensureCatalogExists(st, catelog)
                 st2 == [st1 EXCEPT !.sites =
                            {IF r.id = ToInt(id)
                             THEN [r EXCEPT !.name = name, !.url = url, !.catelog = catelog]
                             ELSE r : r \in @}]
             IN  Out(st2, Json(200, [code |-> 200, message |-> "Config updated successfully"]))

\* api.toggleSitePrivacy, lines 486-498
toggleSitePrivacy(st, req, siteId) ==
    LET found == {r \in st.sites : r.id = ToInt(siteId)} IN
    IF req.fault = "NAV_DB"
    THEN Out(st, errorResponse("Failed to toggle site privacy: <e.message>", 500))
    ELSE IF found = {} THEN Out(st, errorResponse("Site not found", 404))
    ELSE LET site == CHOOSE r \in found : TRUE
             newStatus == IF site.is_private = 0 THEN 1 ELSE 0
         IN  Out([st EXCEPT !.sites = {IF r.id = ToInt(siteId)
                                       THEN [r EXCEPT !.is_private = newStatus]
                                       ELSE r : r \in @}],
                 Json(200, [code |-> 200, message |-> "Privacy status updated",
                            newStatus |-> newStatus]))

\* reorderConfig that binds the 0-based index as sort_order
reorderConfig_ZeroBased(st, req) ==
    LET b == req.body
        ids == IF IsArrayField(b, "orderedIds") THEN b.orderedIds ELSE <<>>
        at(r) == {i \in 1..Len(ids) : ids[i] = r.id}
    IN  IF ~Destructures(b)
        THEN Out(st, errorResponse("Failed to reorder configs: <e.message>", 500))
        ELSE IF ~IsArrayField(b, "orderedIds")
        THEN Out(st, errorResponse("Invalid data format, expected an array of IDs.", 400))
        ELSE IF req.fault = "NAV_DB"
        THEN Out(st, errorResponse("Failed to reorder configs: <e.message>", 500))
        ELSE Out([st EXCEPT !.sites = {IF at(r) = {} THEN r
                                       ELSE [r EXCEPT !.sort_order = MaxOf(at(r)) - 1] : r \in @}],
                 Json(200, [code |-> 200, message |-> "Reordered successfully"]))

\* api.reorderConfig, lines 500-521: statement i sets sort_order = i for the
\* row whose id is orderedIds[i]; the batch applies the statements in order
reorderConfig(st, req) ==
    LET b == req.body
        ids == IF IsArrayField(b, "orderedIds") THEN b.orderedIds ELSE <<>>
        at(r) == {i \in 1..Len(ids) : ids[i] = r.id}
    IN  IF ~Destructures(b)
        THEN Out(st, errorResponse("Failed to reorder configs: <e.message>", 500))
        ELSE IF ~IsArrayField(b, "orderedIds")
        THEN Out(st, errorResponse("Invalid data format, expected an array of IDs.", 400))
        ELSE IF req.fault = "NAV_DB"
        THEN Out(st, errorResponse("Failed to reorder configs: <e.message>", 500))
        ELSE Out([st EXCEPT !.sites = {IF at(r) = {} THEN r
                                       ELSE [r EXCEPT !.sort_order = MaxOf(at(r))] : r \in @}],
                 Json(200, [code |-> 200, message |-> "Reordered successfully"]))

\* api.deleteConfig, lines 523-534
deleteConfig(st, req, id) ==
    IF req.fault = "NAV_DB"
    THEN Out(st, errorResponse("Failed to delete config: <e.message>", 500))
    ELSE Out([st EXCEPT !.sites = {r \in @ : r.id # ToInt(id)}],
             Json(200, [code |-> 200, message |-> "Config deleted successfully"]))

\* api.deleteAllConfigs, lines 536-547: also resets the AUTOINCREMENT counter
deleteAllConfigs(st, req) ==
    IF req.fault = "NAV_DB"
    THEN Out(st, errorResponse("deleteAllConfigs failed: <e.message>", 500))
    ELSE Out([st EXCEPT !.sites = {}, !.seq.sites = 0],
             Json(200, [code |-> 200, message |-> "all bookmarks deleted"]))

\* for (const cat of uniqueCatalogs) await this.ensureCatalogExists(env, cat)
RECURSIVE EnsureAll(_, _)
EnsureAll(st, items) ==
    IF items = <<>> THEN st
    ELSE EnsureAll(ensureCatalogExists(st, Head(items).catelog), Tail(items))

\* the INSERT statements of an import, item by item: sort_order is
\* item.sort_order || index + 1, is_private is item.is_private || 0
RECURSIVE InsertItems(_, _, _)
InsertItems(st, items, index) ==
    IF items = <<>> THEN st
    ELSE LET item == Head(items)
             order == IF item.sort_order # 0 THEN item.sort_order ELSE index + 1
         IN  InsertItems(InsertSite(st, item.name, item.url, item.catelog, order,
                                    item.is_private),
                         Tail(items), index + 1)

\* api.importConfig, lines 549-581
importConfig(st, req) ==
    LET b == req.body IN
    IF ~Parses(b)
    THEN Out(st, errorResponse("Failed to import config : <e.message>", 500))
    ELSE IF b.json # "array"
    THEN Out(st, errorResponse("Invalid JSON data. Must be an array of site configurations.", 400))
    ELSE IF req.fault = "NAV_DB"
    THEN Out(st, errorResponse("Failed to import config : <e.message>", 500))
    ELSE Out(InsertItems(EnsureAll(st, b.items), b.items, 0),
             Json(201, [code |-> 201, message |-> "Config imported successfully"]))

\* api.exportConfig, lines 583-595: the rows themselves are the JSON body
exportConfig(st, req) ==
    IF req.fault = "NAV_DB"
    THEN Out(st, errorResponse("Failed to export config: <e.message>", 500))
    ELSE Out(st, Json(200, [data |-> OrderBy(st.sites, BySort)]))

\* api.getCatalogs, lines 597-613
getCatalogs(st, req) ==
    IF req.fault = "NAV_DB"
    THEN Out(st, errorResponse("Failed to fetch catalogs: <e.message>", 500))
    ELSE Out(st, Json(200, [code |-> 200, data |-> OrderBy(st.catalogs, BySort)]))

\* api.createCatalog, lines 615-635: the name column is unique, a second row
\* of the same name makes the INSERT throw
createCatalog(st, req) ==
    LET b == req.body
        name == Field(b, "name")
    IN  IF ~Destructures(b)
        THEN Out(st, errorResponse("Failed to create catalog: <e.message>", 500))
        ELSE IF FalsyStr(name)
        THEN Out(st, errorResponse("Catalog name is required", 400))
        ELSE IF req.fault = "NAV_DB" \/ \E c \in st.catalogs : c.name = name
        THEN Out(st, errorResponse("Failed to create catalog: <e.message>", 500))
        ELSE Out(InsertCatalog(st, name, MaxSortOrder(st.catalogs) + 1),
                 Json(201, [code |-> 201, message |-> "Catalog created successfully"]))

\* updateCatalog that sends its two statements as two store calls: when the
\* second fails the first stays applied
updateCatalog_TwoCalls(st, req) ==
    LET b == req.body
        id == NumField(b, "id")
        oldName == Field(b, "oldName")  newName == Field(b, "newName")
        clash == \E c \in st.catalogs : c.name = newName /\ c.id # id
                     /\ \E d \in st.catalogs : d.id = id
        st1 == [st EXCEPT !.catalogs = {IF c.id = id THEN [c EXCEPT !.name = newName]
                                        ELSE c : c \in @}]
        st2 == IF oldName # newName
               THEN [st1 EXCEPT !.sites = {IF r.catelog = oldName
                                           THEN [r EXCEPT !.catelog = newName]
                                           ELSE r : r \in @}]
               ELSE st1
    IN  IF ~Destructures(b)
        THEN Out(st, errorResponse("Failed to update catalog: <e.message>", 500))
        ELSE IF id = 0 \/ FalsyStr(oldName) \/ FalsyStr(newName)
        THEN Out(st, errorResponse("ID, old name, and new name are required", 400))
        ELSE IF clash
        THEN Out(st, errorResponse("Failed to update catalog: <e.message>", 500))
        ELSE IF req.fault = "NAV_DB"
        THEN Out(st1, errorResponse("Failed to update catalog: <e.message>", 500))
        ELSE Out(st2, Json(200, [code |-> 200, message |-> "Catalog updated successfully"]))

\* api.updateCatalog, lines 637-660: one batch of one or two statements
updateCatalog(st, req) ==
    LET b == req.body
        id == NumField(b, "id")
        oldName == Field(b, "oldName")  newName == Field(b, "newName")
        clash == \E c \in st.catalogs : c.name = newName /\ c.id # id
                     /\ \E d \in st.catalogs : d.id = id
        st1 == [st EXCEPT !.catalogs = {IF c.id = id THEN [c EXCEPT !.name = newName]
                                        ELSE c : c \in @}]
        st2 == IF oldName # newName
               THEN [st1 EXCEPT !.sites = {IF r.catelog = oldName
                                           THEN [r EXCEPT !.catelog = newName]
                                           ELSE r : r \in @}]
               ELSE st1
    IN  IF ~Destructures(b)
        THEN Out(st, errorResponse("Failed to update catalog: <e.message>", 500))
        ELSE IF id = 0 \/ FalsyStr(oldName) \/ FalsyStr(newName)
        THEN Out(st, errorResponse("ID, old name, and new name are required", 400))
        ELSE IF req.fault = "NAV_DB" \/ clash
        THEN Out(st, errorResponse("Failed to update catalog: <e.message>", 500))
        ELSE Out(st2, Json(200, [code |-> 200, message |-> "Catalog updated successfully"]))

\* api.deleteCatalog, lines 662-678
deleteCatalog(st, req) ==
    LET b == req.body
        name == Field(b, "name")
    IN  IF ~Destructures(b)
        THEN Out(st, errorResponse("Failed to delete catalog: <e.message>", 500))
        ELSE IF FalsyStr(name)
        THEN Out(st, errorResponse("Catalog name is required", 400))
        ELSE IF req.fault = "NAV_DB"
        THEN Out(st, errorResponse("Failed to delete catalog: <e.message>", 500))
        ELSE Out([st EXCEPT !.sites = {r \in @ : r.catelog # name},
                            !.catalogs = {c \in @ : c.name # name}],
                 Json(200, [code |-> 200,
                            message |-> "Catalog and all associated sites deleted successfully"]))

\* api.toggleCatalogPrivacy, lines 680-692
toggleCatalogPrivacy(st, req, catalogId) ==
    LET found == {c \in st.catalogs : c.id = ToInt(catalogId)} IN
    IF req.fault = "NAV_DB"
    THEN Out(st, errorResponse("Failed to toggle catalog privacy: <e.message>", 500))
    ELSE IF found = {} THEN Out(st, errorResponse("Catalog not found", 404))
    ELSE LET catalog == CHOOSE c \in found : TRUE
             newStatus == IF catalog.is_private = 0 THEN 1 ELSE 0
         IN  Out([st EXCEPT !.catalogs = {IF c.id = ToInt(catalogId)
                                          THEN [c EXCEPT !.is_private = newStatus]
                                          ELSE c : c \in @}],
                 Json(200, [code |-> 200, message |-> "Privacy status updated",
                            newStatus |-> newStatus]))

\* api.reorderCatalogs, lines 694-714
reorderCatalogs(st, req) ==
    LET b == req.body
        names == IF IsArrayField(b, "orderedNames") THEN b.orderedNames ELSE <<>>
        at(c) == {i \in 1..Len(names) : names[i] = c.name}
    IN  IF ~Destructures(b)
        THEN Out(st, errorResponse("Failed to reorder catalogs: <e.message>", 500))
        ELSE IF ~IsArrayField(b, "orderedNames")
        THEN Out(st, errorResponse("Invalid data format, expected an array of names.", 400))
        ELSE IF req.fault = "NAV_DB"
        THEN Out(st, errorResponse("Failed to reorder catalogs: <e.message>", 500))
        ELSE Out([st EXCEPT !.catalogs = {IF at(c) = {} THEN c
                                          ELSE [c EXCEPT !.sort_order = MaxOf(at(c))] : c \in @}],
                 Json(200, [code |-> 200, message |-> "Catalogs reordered successfully"]))

\* the category names of the model, in the order ORDER BY catelog gives them
CatalogNames == <<"c1", "c2">>
NameRank(name) == CHOOSE i \in 1..Len(CatalogNames) : CatalogNames[i] = name

\* INSERT OR IGNORE INTO catalogs (name, sort_order), one per distinct name
RECURSIVE MigrateAll(_, _, _)
MigrateAll(st, names, index) ==
    IF names = <<>> THEN st
    ELSE MigrateAll(IF \E c \in st.catalogs : c.name = Head(names) THEN st
                    ELSE InsertCatalog(st, Head(names), index + 1),
                    Tail(names), index + 1)

\* api.migrateCatalogs, lines 716-742
migrateCatalogs(st, req) ==
    LET distinct == {r.catelog : r \in {x \in st.sites : ~FalsyStr(x.catelog)}}
        results == OrderKeyed(distinct, [n \in distinct |-> NameRank(n)])
    IN  IF req.fault = "NAV_DB"
        THEN Out(st, errorResponse("Failed to migrate catalogs: <e.message>", 500))
        ELSE IF results = <<>>
        THEN Out(st, Json(200, [code |-> 200, message |-> "No catalogs to migrate."]))
        ELSE Out(MigrateAll(st, results, 0),
                 Json(200, [code |-> 200, message |-> "Successfully migrated <n> catalogs."]))

\* settingKeys and defaultSettings, lines 768-797 and 821-835: two of the
\* thirteen settings, all of which the code handles alike
settingKeys == [main_title |-> "frontend_main_title", dark_mode |-> "frontend_dark_mode"]
defaultSettings == [main_title |-> "aki", dark_mode |-> "0"]

\* api.getSettings, lines 762-813
getSettings(st, req) ==
    IF req.fault = "NAV_SETTINGS"
    THEN Out(st, errorResponse("Failed to get settings: <e.message>", 500))
    ELSE Out(st, Json(200, [code |-> 200,
             data |-> [k \in DOMAIN settingKeys |->
                         IF settingKeys[k] \in DOMAIN st.settings
                         THEN st.settings[settingKeys[k]] ELSE defaultSettings[k]]]))

\* api.updateSettings, lines 815-852: a put for every known key the body has
updateSettings(st, req) ==
    LET b == req.body
        given == {k \in DOMAIN settingKeys : b.json = "object" /\ k \in DOMAIN b}
        puts == {settingKeys[k] : k \in given}
        keyOf(sk) == CHOOSE k \in given : settingKeys[k] = sk
    IN  IF ~Destructures(b) \/ req.fault = "NAV_SETTINGS"
        THEN Out(st, errorResponse("Failed to update settings: <e.message>", 500))
        ELSE Out([st EXCEPT !.settings = [sk \in DOMAIN @ \cup puts |->
                                            IF sk \in puts THEN b[keyOf(sk)] ELSE @[sk]]],
                 Json(200, [code |-> 200, message |-> "Settings updated successfully"]))

\* api.exportCategory, lines 862-885
exportCategory(st, req) ==
    LET categoryName == req.query.name IN
    IF FalsyStr(categoryName) THEN Out(st, errorResponse("Category name is required", 400))
    ELSE IF req.fault = "NAV_DB"
    THEN Out(st, errorResponse("Failed to export category: <e.message>", 500))
    ELSE Out(st, Json(200, [data |-> OrderBy({r \in st.sites : r.catelog = categoryName}, BySort)]))

\* jsonData.filter(item => item.catelog === categoryName)
FilterItems(items, categoryName) == SelectSeq(items, LAMBDA item : item.catelog = categoryName)

\* api.importCategory, lines 887-932
importCategory(st, req) ==
    LET categoryName == req.query.name
        b == req.body
        filteredData == FilterItems(b.items, categoryName)
    IN  IF FalsyStr(categoryName) THEN Out(st, errorResponse("Category name is required", 400))
        ELSE IF ~Parses(b)
        THEN Out(st, errorResponse("Failed to import category: <e.message>", 500))
        ELSE IF b.json # "array"
        THEN Out(st, errorResponse("Invalid JSON data. Must be an array.", 400))
        ELSE IF filteredData = <<>>
        THEN Out(st, Json(200, [code |-> 200, message |-> "no bookmark of this category in the file"]))
        ELSE IF req.fault = "NAV_DB"
        THEN Out(st, errorResponse("Failed to import category: <e.message>", 500))
        ELSE Out(InsertItems(ensureCatalogExists(st, categoryName), filteredData, 0),
                 Json(201, [code |-> 201, message |-> "bookmarks imported into the category"]))

\* the handler call of the dispatch chain, lines 151-250
Handle(h, st, req, path, id) ==
    CASE h = "getSettings" -> getSettings(st, req)
      [] h = "updateSettings" -> updateSettings(st, req)
      [] h = "getCatalogs" -> getCatalogs(st, req)
      [] h = "createCatalog" -> createCatalog(st, req)
      [] h = "updateCatalog" -> updateCatalog(st, req)
      [] h = "deleteCatalog" -> deleteCatalog(st, req)
      [] h = "reorderCatalogs" -> reorderCatalogs(st, req)
      [] h = "migrateCatalogs" -> migrateCatalogs(st, req)
      [] h = "toggleCatalogPrivacy" -> toggleCatalogPrivacy(st, req, Segment2(path))
      [] h = "getConfig" -> getConfig(st, req)
      [] h = "createConfig" -> createConfig(st, req)
      [] h = "reorderConfig" -> reorderConfig(st, req)
      [] h = "deleteAllConfigs" -> deleteAllConfigs(st, req)
      [] h = "submitConfig" -> submitConfig(st, req)
      [] h = "updateConfig" -> updateConfig(st, req, id)
      [] h = "deleteConfig" -> deleteConfig(st, req, id)
      [] h = "toggleSitePrivacy" -> toggleSitePrivacy(st, req, Segment2(path))
      [] h = "approvePendingConfig" -> approvePendingConfig(st, req, id)
      [] h = "rejectPendingConfig" -> rejectPendingConfig(st, req, id)
      [] h = "importConfig" -> importConfig(st, req)
      [] h = "exportConfig" -> exportConfig(st, req)
      [] h = "getPendingConfig" -> getPendingConfig(st, req)
      [] h = "getPrivateConfig" -> getPrivateConfig(st, req)
      [] h = "exportCategory" -> exportCategory(st, req)
      [] h = "importCategory" -> importCategory(st, req)
      [] h = MethodNotAllowed -> Out(st, errorResponse("Method Not Allowed", 405))
      [] OTHER -> Out(st, errorResponse("Not Found", 404))

-----------------------------------------------------------------------------
(* admin.handleLogin and admin.handleLogout *)

DaySeconds == 86400
RememberDays == 30

\* crypto.randomUUID(): an identifier never handed out before
SessionPool == <<"s1", "s2", "s3", "s4", "s5", "s6">>
randomUUID(n) == <<SessionPool[n + 1]>>

UsernameKey == <<"admin_username">>
PasswordKey == <<"admin_password">>

\* the Set-Cookie header of a login, line 997
SessionCookie(sessionId, maxAge) ==
    [name |-> "sessionId", value |-> sessionId, HttpOnly |-> TRUE, Secure |-> TRUE,
     Path |-> "/", MaxAge |-> maxAge]

\* the Set-Cookie header of a logout, line 1041
ClearedCookie == SessionCookie(<<>>, 0)

\* the Max-Age with the two branches of the conditional swapped
MaxAgeFor_Swapped(body) ==
    IF body.json = "object" /\ "remember" \in DOMAIN body /\ body.remember
    THEN DaySeconds ELSE RememberDays * DaySeconds

\* remember ? 30 * 86400 : 86400
MaxAgeFor(body) ==
    IF body.json = "object" /\ "remember" \in DOMAIN body /\ body.remember
    THEN RememberDays * DaySeconds ELSE DaySeconds

\* the credential test with || in place of &&
CredentialsMatch_Either(body, kv) ==
    \/ Field(body, "username") = KvGet(kv, UsernameKey)
    \/ Field(body, "password") = KvGet(kv, PasswordKey)

\* username === storedUsername && password === storedPassword, line 980
CredentialsMatch(body, kv) ==
    /\ Field(body, "username") = KvGet(kv, UsernameKey)
    /\ Field(body, "password") = KvGet(kv, PasswordKey)

\* handleLogin that keeps one session per user: a successful login drops
\* the session records already in the store
handleLogin_SingleSession(req, kv, n) ==
    IF ~Destructures(req.body) \/ req.fault = "NAV_AUTH"
    THEN [kv |-> kv, resp |-> Json(500, [success |-> FALSE, message |-> "<e.message>"])]
    ELSE IF CredentialsMatch(req.body, kv)
    THEN LET sessionId == randomUUID(n)
             maxAge == MaxAgeFor(req.body)
             others == [k \in {UsernameKey, PasswordKey} \cap DOMAIN kv |-> kv[k]]
         IN  [kv |-> KvPut(others, SessionKey(sessionId), "valid", maxAge),
              resp |-> [Json(200, [success |-> TRUE, message |-> "Login successful"])
                            EXCEPT !.setCookie = SessionCookie(sessionId, maxAge)]]
    ELSE [kv |-> kv,
          resp |-> Json(401, [success |-> FALSE, message |-> "Invalid username or password"])]

\* admin.handleLogin, lines 973-1013: the store afterwards and the response
handleLogin(req, kv, n) ==
    IF ~Destructures(req.body) \/ req.fault = "NAV_AUTH"
    THEN [kv |-> kv, resp |-> Json(500, [success |-> FALSE, message |-> "<e.message>"])]
    ELSE IF CredentialsMatch(req.body, kv)
    THEN LET sessionId == randomUUID(n)
             maxAge == MaxAgeFor(req.body)
         IN  [kv |-> KvPut(kv, SessionKey(sessionId), "valid", maxAge),
              resp |-> [Json(200, [success |-> TRUE, message |-> "Login successful"])
                            EXCEPT !.setCookie = SessionCookie(sessionId, maxAge)]]
    ELSE [kv |-> kv,
          resp |-> Json(401, [success |-> FALSE, message |-> "Invalid username or password"])]

\* the session identifier handleLogout deletes, Absent when it deletes none
LogoutTarget(cookieHeader) ==
    IF Falsy(cookieHeader) THEN Absent
    ELSE IF Falsy(SessionIdOf(cookieHeader)) THEN Absent
    ELSE SessionIdOf(cookieHeader)

\* handleLogout that deletes the key named by the bare identifier, without
\* the session: prefix
handleLogout_BareKey(req, kv) ==
    LET sessionId == LogoutTarget(req.cookie) IN
    [kv |-> IF sessionId # Absent THEN KvDelete(kv, sessionId) ELSE kv,
     resp |-> [Json(200, [success |-> TRUE, message |-> "Logged out"])
                   EXCEPT !.setCookie = ClearedCookie]]

\* handleLogout that ends every session, not only the one presented
handleLogout_EndsAll(req, kv) ==
    LET sessionId == LogoutTarget(req.cookie) IN
    [kv |-> IF sessionId # Absent
            THEN [k \in {UsernameKey, PasswordKey} \cap DOMAIN kv |-> kv[k]] ELSE kv,
     resp |-> [Json(200, [success |-> TRUE, message |-> "Logged out"])
                   EXCEPT !.setCookie = ClearedCookie]]

\* handleLogout that clears the cookie only when the request named a session
handleLogout_ClearsIfNamed(req, kv) ==
    LET sessionId == LogoutTarget(req.cookie) IN
    [kv |-> IF sessionId # Absent THEN KvDelete(kv, SessionKey(sessionId)) ELSE kv,
     resp |-> IF sessionId # Absent
              THEN [Json(200, [success |-> TRUE, message |-> "Logged out"])
                        EXCEPT !.setCookie = ClearedCookie]
              ELSE Json(200, [success |-> TRUE, message |-> "Logged out"])]

\* admin.handleLogout, lines 1018-1051
handleLogout(req, kv) ==
    LET sessionId == LogoutTarget(req.cookie) IN
    IF sessionId # Absent /\ req.fault = "NAV_AUTH"
    THEN [kv |-> kv, resp |-> Json(500, [success |-> FALSE, message |-> "<e.message>"])]
    ELSE [kv |-> IF sessionId # Absent THEN KvDelete(kv, SessionKey(sessionId)) ELSE kv,
          resp |-> [Json(200, [success |-> TRUE, message |-> "Logged out"])
                        EXCEPT !.setCookie = ClearedCookie]]

-----------------------------------------------------------------------------
(* The frontend renderer: handleRequest, lines 2768-3279 *)

\* an exception that leaves fetch: no Response was produced by the code
Uncaught == Page(0, "<uncaught exception>", "-")

\* What the page renders: the sidebar categories, the cards of the current
\* category and the bookmark count.  The settings reads of lines 2790-2811
\* are outside any try; the batch of lines 2816-2822 is inside one, whose
\* catch falls back to the sites table alone when the catalogs table does
\* not exist (lines 2826-2832).
handleRequest(st, req) ==
    LET legacy == "catalogs" \notin DOMAIN st.seq
        names == {r.catelog : r \in st.sites}
        sidebar == IF legacy THEN OrderKeyed(names, [n \in names |-> NameRank(n)])
                    ELSE LET rows == OrderBy({c \in st.catalogs : c.is_private = 0}, BySort)
                         IN  [i \in 1..Len(rows) |-> rows[i].name]
        shown == IF legacy THEN OrderBy(st.sites, ByNewest)
                 ELSE OrderBy({r \in st.sites :
                                 /\ r.is_private = 0
                                 /\ \E c \in st.catalogs : c.name = r.catelog /\ c.is_private = 0},
                              BySortThenNewest)
        currentCatalog == IF FalsyStr(req.query.catalog) /\ sidebar # <<>>
                          THEN sidebar[1] ELSE req.query.catalog
        currentSites == IF FalsyStr(currentCatalog) THEN shown
                        ELSE SelectSeq(shown, LAMBDA r : r.catelog = currentCatalog)
    IN  IF req.fault = "NAV_SETTINGS" THEN Uncaught
        ELSE IF req.fault = "NAV_DB" THEN Page(500, "text/plain", "Failed to fetch data: <e.message>")
        ELSE [Page(200, "text/html", "index")
                 EXCEPT !.body = [page |-> "index", catalogs |-> sidebar,
                                  sites |-> currentSites, count |-> Len(shown)]]

-----------------------------------------------------------------------------
(* The state machine: one step per request, as fetch routes it (3289-3297) *)

Store == [sites |-> sites, catalogs |-> catalogs, pending_sites |-> pending_sites,
          seq |-> seq, settings |-> NAV_SETTINGS]

\* no table has handed out more ids than the model allows
WithinRows(st) == \A t \in DOMAIN st.seq : st.seq[t] <= MaxRows

SetStore(st) ==
    /\ sites' = st.sites
    /\ catalogs' = st.catalogs
    /\ pending_sites' = st.pending_sites
    /\ seq' = st.seq
    /\ NAV_SETTINGS' = st.settings

Init ==
    /\ NAV_AUTH = (UsernameKey :> [value |-> "admin", ttl |-> 0])
                      @@ (PasswordKey :> [value |-> "secret", ttl |-> 0])
    /\ NAV_SETTINGS = <<>>
    /\ sites = {}
    /\ catalogs = {}
    /\ pending_sites = {}
    /\ seq = [sites |-> 0, catalogs |-> 0, pending_sites |-> 0]
    /\ issued = 0
    /\ request = NoRequest
    /\ response = NoResponse
    /\ handler = "-"
    /\ protected = FALSE
    /\ kvReads = {}
    /\ loggedOut = {}
    /\ inflight = Idle
    /\ AA = <<>>
    /\ verified = {}

\* api.handleRequest, lines 92-251: the gate, then the dispatch chain
ApiRequest(req) ==
    /\ StartsWith(req.pathname, <<"/", "api">>)
    /\ LET path == ApiPath(req.pathname)
           id == LastSegment(req.pathname)
           isProt == isProtected(req.method, path)
           auth == IF isProt THEN checkAuth(req.cookie, req.fault, NAV_AUTH)
                   ELSE [ok |-> TRUE, reads |-> {}]
           h == Dispatch(req.method, path, id)
           out == IF isProt /\ ~auth.ok
                  THEN Out(Store, errorResponse("Unauthorized", 401))
                  ELSE Handle(h, Store, req, path, id)
       IN  /\ WithinRows(out.st)
           /\ SetStore(out.st)
           /\ request' = req
           /\ response' = out.resp
           /\ handler' = IF isProt /\ ~auth.ok THEN "-" ELSE h
           /\ protected' = isProt
           /\ kvReads' = auth.reads
    /\ UNCHANGED <<NAV_AUTH, issued, loggedOut>>
    /\ UNCHANGED <<inflight, AA, verified>>

IsAdminRoute(req) ==
    ~StartsWith(req.pathname, <<"/", "api">>) /\ StartsWith(req.pathname, <<"/", "admin">>)

\* admin.handleRequest, lines 1064-1066
Login(req) ==
    /\ IsAdminRoute(req)
    /\ req.pathname = <<"/", "admin", "/", "login">> /\ req.method = "POST"
    /\ LET out == handleLogin(req, NAV_AUTH, issued)
           created == out.resp.status = 200
       IN  /\ created => issued < MaxSessions
           /\ NAV_AUTH' = out.kv
           /\ issued' = IF created THEN issued + 1 ELSE issued
           /\ request' = req
           /\ response' = out.resp
           /\ kvReads' = IF Destructures(req.body) THEN {UsernameKey, PasswordKey} ELSE {}
    /\ handler' = "handleLogin"
    /\ protected' = FALSE
    /\ UNCHANGED <<NAV_SETTINGS, sites, catalogs, pending_sites, seq, loggedOut>>
    /\ UNCHANGED <<inflight, AA, verified>>

\* admin.handleRequest, lines 1069-1071
Logout(req) ==
    /\ IsAdminRoute(req)
    /\ req.pathname = <<"/", "admin", "/", "logout">> /\ req.method = "POST"
    /\ LET out == handleLogout(req, NAV_AUTH)
       IN  /\ NAV_AUTH' = out.kv
           /\ request' = req
           /\ response' = out.resp
           /\ loggedOut' = IF out.resp.status = 200
                                /\ SessionKey(LogoutTarget(req.cookie)) \in DOMAIN NAV_AUTH
                           THEN loggedOut \cup {LogoutTarget(req.cookie)} ELSE loggedOut
    /\ handler' = "handleLogout"
    /\ protected' = FALSE
    /\ kvReads' = {}
    /\ UNCHANGED <<NAV_SETTINGS, sites, catalogs, pending_sites, seq, issued>>
    /\ UNCHANGED <<inflight, AA, verified>>

\* a variant whose admin view consumes the session it was shown for
AdminPage_SingleUse(req) ==
    /\ IsAdminRoute(req)
    /\ req.pathname = <<"/", "admin">>
    /\ LET auth == checkAuth(req.cookie, req.fault, NAV_AUTH)
       IN  /\ response' = IF auth.ok THEN Page(200, "text/html", "renderAdminPage")
                          ELSE Page(200, "text/html", "renderLoginPage")
           /\ kvReads' = auth.reads
           /\ NAV_AUTH' = IF auth.ok THEN KvDelete(NAV_AUTH, SessionKey(SessionIdOf(req.cookie)))
                          ELSE NAV_AUTH
    /\ request' = req
    /\ handler' = "checkAuth"
    /\ protected' = FALSE
    /\ UNCHANGED <<NAV_SETTINGS, sites, catalogs, pending_sites, seq, issued, loggedOut>>
    /\ UNCHANGED <<inflight, AA, verified>>

\* admin.handleRequest, lines 1074-1084
AdminPage(req) ==
    /\ IsAdminRoute(req)
    /\ ~(req.pathname = <<"/", "admin", "/", "login">> /\ req.method = "POST")
    /\ ~(req.pathname = <<"/", "admin", "/", "logout">> /\ req.method = "POST")
    /\ req.pathname = <<"/", "admin">>
    /\ LET auth == checkAuth(req.cookie, req.fault, NAV_AUTH)
       IN  /\ response' = IF auth.ok THEN Page(200, "text/html", "renderAdminPage")
                          ELSE Page(200, "text/html", "renderLoginPage")
           /\ kvReads' = auth.reads
    /\ request' = req
    /\ handler' = "checkAuth"
    /\ protected' = FALSE
    /\ UNCHANGED <<NAV_AUTH, NAV_SETTINGS, sites, catalogs, pending_sites, seq, issued, loggedOut>>
    /\ UNCHANGED <<inflight, AA, verified>>

\* admin.handleRequest, line 1086
AdminNotFound(req) ==
    /\ IsAdminRoute(req)
    /\ ~(req.pathname = <<"/", "admin", "/", "login">> /\ req.method = "POST")
    /\ ~(req.pathname = <<"/", "admin", "/", "logout">> /\ req.method = "POST")
    /\ req.pathname # <<"/", "admin">>
    /\ request' = req
    /\ response' = Page(404, "text/plain", "not found")
    /\ handler' = "-"
    /\ protected' = FALSE
    /\ kvReads' = {}
    /\ UNCHANGED <<NAV_AUTH, NAV_SETTINGS, sites, catalogs, pending_sites, seq, issued, loggedOut>>
    /\ UNCHANGED <<inflight, AA, verified>>

\* fetch, lines 3295-3297: every other path goes to the frontend renderer
PublicPage(req) ==
    /\ ~StartsWith(req.pathname, <<"/", "api">>)
    /\ ~StartsWith(req.pathname, <<"/", "admin">>)
    /\ ~StartsWith(req.pathname, <<"/", "static">>)
    /\ request' = req
    /\ response' = handleRequest(Store, req)
    /\ handler' = "handleRequest"
    /\ protected' = FALSE
    /\ kvReads' = {}
    /\ UNCHANGED <<NAV_AUTH, NAV_SETTINGS, sites, catalogs, pending_sites, seq, issued, loggedOut>>
    /\ UNCHANGED <<inflight, AA, verified>>

\* the key-value store drops a key when its expirationTtl has run out
Expire(key) ==
    /\ key \in DOMAIN NAV_AUTH
    /\ NAV_AUTH[key].ttl > 0
    /\ NAV_AUTH' = KvDelete(NAV_AUTH, key)
    /\ request' = [NoRequest EXCEPT !.method = "<ttl expiry>"]
    /\ response' = NoResponse
    /\ handler' = "-"
    /\ protected' = FALSE
    /\ kvReads' = {}
    /\ UNCHANGED <<NAV_SETTINGS, sites, catalogs, pending_sites, seq, issued, loggedOut>>
    /\ UNCHANGED <<inflight, AA, verified>>

-----------------------------------------------------------------------------
(* The requests the model sends *)

Req(method, pathname, cookie, query, body) ==
    [method |-> method, pathname |-> pathname, cookie |-> cookie, query |-> query,
     body |-> body, fault |-> "none"]

SessionIds == {randomUUID(n) : n \in 0..(MaxSessions - 1)}
CookieOf(sessionId) == <<"sessionId", "=">> \o sessionId

\* Cookie headers: absent, empty, one session cookie, and the shapes the
\* parser has to take apart
PlainCookies == {Absent} \cup {CookieOf(s) : s \in SessionIds}
OddCookies == {
    <<>>,
    CookieOf(<<"zz">>),
    <<"theme", "=", "dark", ";", " ">> \o CookieOf(<<"s1">>),
    CookieOf(<<"s1">>) \o <<"=", "x">>,
    CookieOf(<<"s1">>) \o <<";", " ">> \o CookieOf(<<"zz">>),
    <<"sessionId">>,
    <<"sessionId", "=">>,
    <<"sid", "=", "s1">> }
Cookies == PlainCookies \cup OddCookies

Obj(fields) == [json |-> "object"] @@ fields
Malformed == [json |-> "malformed"]
SiteBody == Obj([name |-> "n1", url |-> "u1", catelog |-> "c1"])
SiteBodyNoName == Obj([url |-> "u1", catelog |-> "c1"])
EditBody == Obj([name |-> "n2", url |-> "u1", catelog |-> "c2"])
CatalogBody == Obj([name |-> "c2"])
RenameBody == Obj([id |-> 1, oldName |-> "c1", newName |-> "c2"])
ReorderBody == Obj([orderedIds |-> <<2, 1>>])
ReorderNamesBody == Obj([orderedNames |-> <<"c2", "c1">>])
ImportBody == [json |-> "array",
               items |-> <<[name |-> "n1", url |-> "u1", catelog |-> "c1",
                            sort_order |-> 0, is_private |-> 1]>>]
SettingsBody == Obj([main_title |-> "t1"])

Api(rest) == <<"/", "api">> \o rest
IdTokens == {<<DigitSeq[i + 1]>> : i \in 1..(MaxRows + 1)}

\* one call or more for every branch of the dispatch chain: [method, rest of
\* the path, query, body]
ApiCalls ==
    {<<"GET", <<"/", "settings">>, NoQuery, NoBody>>,
     <<"POST", <<"/", "settings">>, NoQuery, SettingsBody>>,
     <<"PATCH", <<"/", "settings">>, NoQuery, NoBody>>,
     <<"GET", <<"/", "catalogs">>, NoQuery, NoBody>>,
     <<"POST", <<"/", "catalogs">>, NoQuery, CatalogBody>>,
     <<"PUT", <<"/", "catalogs">>, NoQuery, RenameBody>>,
     <<"DELETE", <<"/", "catalogs">>, NoQuery, CatalogBody>>,
     <<"POST", <<"/", "catalogs", "/", "reorder">>, NoQuery, ReorderNamesBody>>,
     <<"POST", <<"/", "catalogs", "/", "migrate">>, NoQuery, NoBody>>,
     <<"GET", <<"/", "config">>, NoQuery, NoBody>>,
     <<"GET", <<"/", "config">>, [NoQuery EXCEPT !.catalog = "c1"], NoBody>>,
     <<"POST", <<"/", "config">>, NoQuery, SiteBody>>,
     <<"POST", <<"/", "config">>, NoQuery, SiteBodyNoName>>,
     <<"POST", <<"/", "config">>, NoQuery, Malformed>>,
     <<"POST", <<"/", "config", "/", "reorder">>, NoQuery, ReorderBody>>,
     <<"DELETE", <<"/", "config", "/", "all">>, NoQuery, NoBody>>,
     <<"POST", <<"/", "config", "/", "submit">>, NoQuery, SiteBody>>,
     <<"POST", <<"/", "config", "/", "import">>, NoQuery, ImportBody>>,
     <<"GET", <<"/", "config", "/", "export">>, NoQuery, NoBody>>,
     <<"GET", <<"/", "pending">>, NoQuery, NoBody>>,
     <<"GET", <<"/", "private">>, NoQuery, NoBody>>,
     <<"GET", <<"/", "catalogs", "/", "export">>, [NoQuery EXCEPT !.name = "c1"], NoBody>>,
     <<"POST", <<"/", "catalogs", "/", "import">>, [NoQuery EXCEPT !.name = "c1"], ImportBody>>,
     <<"GET", <<"/", "nothing">>, NoQuery, NoBody>>,
     <<"PUT", <<"/", "config", "/", "1", "/">>, NoQuery, EditBody>>,
     <<"PUT", <<"/", "config", "/", "1", "x">>, NoQuery, EditBody>>}
    \cup UNION {{<<"PUT", <<"/", "config", "/">> \o i, NoQuery, EditBody>>,
                 <<"DELETE", <<"/", "config", "/">> \o i, NoQuery, NoBody>>,
                 <<"GET", <<"/", "config", "/">> \o i, NoQuery, NoBody>>,
                 <<"PUT", <<"/", "config", "/">> \o i \o <<"/", "toggle_privacy">>, NoQuery, NoBody>>,
                 <<"PUT", <<"/", "catalogs", "/">> \o i \o <<"/", "toggle_privacy">>, NoQuery, NoBody>>,
                 <<"PUT", <<"/", "pending", "/">> \o i, NoQuery, NoBody>>,
                 <<"DELETE", <<"/", "pending", "/">> \o i, NoQuery, NoBody>>} : i \in IdTokens}

CallRequests(calls, cookies) ==
    {Req(c[1], Api(c[2]), k, c[3], c[4]) : c \in calls, k \in cookies}

LoginBodies ==
    {Obj([username |-> u, password |-> p, remember |-> r]) :
        u \in {"admin", "guest"}, p \in {"secret", "wrong"}, r \in BOOLEAN}
    \cup {Obj([username |-> "admin", password |-> "secret"]),
          Obj([username |-> Null, password |-> Null]),
          Obj(<<>>), NoBody, Malformed}

LoginRequests ==
    {Req("POST", <<"/", "admin", "/", "login">>, Absent, NoQuery, b) : b \in LoginBodies}
\* a cookie whose sessionId is the name of a credential key
CredentialCookie == CookieOf(UsernameKey)
LogoutRequests ==
    {Req("POST", <<"/", "admin", "/", "logout">>, k, NoQuery, NoBody) :
        k \in Cookies \cup {CredentialCookie}}
AdminPageRequests == {Req("GET", <<"/", "admin">>, k, NoQuery, NoBody) : k \in Cookies}
AdminOtherRequests ==
    {Req("GET", <<"/", "admin", "/", "login">>, Absent, NoQuery, NoBody),
     Req("GET", <<"/", "admin", "/", "nothing">>, Absent, NoQuery, NoBody)}

-----------------------------------------------------------------------------
(* Spec: the session lifecycle.  Logins, logouts, expiry and admin page     *)
(* views with every cookie shape, and API requests that probe the gate: a   *)
(* protected write, two protected reads, a public read, an unknown route.   *)

ProbeCalls ==
    {<<"POST", <<"/", "settings">>, NoQuery, SettingsBody>>,
     <<"DELETE", <<"/", "config", "/", "1">>, NoQuery, NoBody>>,
     <<"GET", <<"/", "private">>, NoQuery, NoBody>>,
     <<"GET", <<"/", "config">>, NoQuery, NoBody>>,
     <<"GET", <<"/", "nothing">>, NoQuery, NoBody>>}

ProbeRequests == CallRequests(ProbeCalls, Cookies)

Next ==
    \/ \E req \in ProbeRequests : ApiRequest(req)
    \/ \E req \in LoginRequests : Login(req)
    \/ \E req \in LogoutRequests : Logout(req)
    \/ \E req \in AdminPageRequests : AdminPage(req)
    \/ \E req \in AdminOtherRequests : AdminNotFound(req)
    \/ \E key \in DOMAIN NAV_AUTH : Expire(key)

Spec == Init /\ [][Next]_vars

-----------------------------------------------------------------------------
(* SpecApi: the gate in front of every route.  One administrator logs in,   *)
(* fills the tables and logs out; every call of ApiCalls arrives with no    *)
(* cookie, with an unknown session and with the administrator's session     *)
(* after it has ended; the administrator's own calls are the few that fill  *)
(* the tables.                                                              *)

AdminCookie == CookieOf(randomUUID(0))
OutsiderCookies == {Absent, CookieOf(<<"zz">>)}

PopulateCalls ==
    {<<"POST", <<"/", "config">>, NoQuery, SiteBody>>,
     <<"PUT", <<"/", "config", "/", "1", "/", "toggle_privacy">>, NoQuery, NoBody>>,
     <<"GET", <<"/", "config">>, NoQuery, NoBody>>}

GoodLogin == Req("POST", <<"/", "admin", "/", "login">>, Absent, NoQuery,
                 Obj([username |-> "admin", password |-> "secret"]))
AdminLogout == Req("POST", <<"/", "admin", "/", "logout">>, AdminCookie, NoQuery, NoBody)

\* a call of the administrator's session, before or after it has ended
AdminCall(req) ==
    /\ \/ req \in CallRequests(PopulateCalls, {AdminCookie})
       \/ /\ SessionKey(randomUUID(0)) \notin DOMAIN NAV_AUTH
          /\ req \in CallRequests(ApiCalls, {AdminCookie})
    /\ ApiRequest(req)

NextApi ==
    \/ \E req \in CallRequests(ApiCalls, OutsiderCookies) : ApiRequest(req)
    \/ \E req \in CallRequests(ApiCalls, {AdminCookie}) : AdminCall(req)
    \/ issued = 0 /\ Login(GoodLogin)
    \/ Logout(AdminLogout)

SpecApi == Init /\ [][NextApi]_vars

-----------------------------------------------------------------------------
(* SpecRoute: the route matcher and the dispatch chain as functions of the  *)
(* method and the path alone.  Init draws a request; Route classifies it    *)
(* the two ways api.handleRequest does, without running a handler.          *)

MaxSegments == 3    \* path segments after /api

Methods == {"GET", "POST", "PUT", "DELETE", "PATCH"}
Words == {"settings", "catalogs", "config", "pending", "private", "reorder", "migrate",
          "all", "submit", "import", "export", "toggle_privacy"}
FirstSegments == {<<w>> : w \in {"settings", "catalogs", "config", "pending", "private", "api"}}
                     \cup {<<"4", "2">>}
Segments == {<<w>> : w \in Words} \cup {<<"4", "2">>, <<"7">>, <<"4", "x">>, <<"a", "b", "c">>, <<>>}

\* up to n segments, each behind its slash
RECURSIVE SegmentPaths(_)
SegmentPaths(n) ==
    IF n = 0 THEN {<<>>}
    ELSE {<<>>} \cup {<<"/">> \o g \o p : g \in Segments, p \in SegmentPaths(n - 1)}

RoutePathnames ==
    {Api(<<"/">> \o f \o p) : f \in FirstSegments, p \in SegmentPaths(MaxSegments - 1)}
    \cup {Api(<<>>), Api(<<"/">>), Api(<<"x", "/", "config">>), Api(<<"config">>),
          Api(<<"/", "config", "/", "4", "2", "/", "toggle_privacy", "/", "7">>),
          Api(<<"/", "x", "/", "config", "/", "4", "2">>)}

RouteInputs == {Req(m, p, Absent, NoQuery, NoBody) : m \in Methods, p \in RoutePathnames}

InitRoute ==
    /\ NAV_AUTH = (UsernameKey :> [value |-> "admin", ttl |-> 0])
                      @@ (PasswordKey :> [value |-> "secret", ttl |-> 0])
    /\ NAV_SETTINGS = <<>>
    /\ sites = {}
    /\ catalogs = {}
    /\ pending_sites = {}
    /\ seq = [sites |-> 0, catalogs |-> 0, pending_sites |-> 0]
    /\ issued = 0
    /\ request \in RouteInputs
    /\ response = NoResponse
    /\ handler = "?"
    /\ protected = FALSE
    /\ kvReads = {}
    /\ loggedOut = {}
    /\ inflight = Idle
    /\ AA = <<>>
    /\ verified = {}

\* api.handleRequest, lines 93-138 and the tests of lines 151-247
Route ==
    /\ handler = "?"
    /\ protected' = isProtected(request.method, ApiPath(request.pathname))
    /\ handler' = Dispatch(request.method, ApiPath(request.pathname),
                           LastSegment(request.pathname))
    /\ UNCHANGED <<NAV_AUTH, NAV_SETTINGS, sites, catalogs, pending_sites, seq, issued,
                   request, response, kvReads, loggedOut>>
    /\ UNCHANGED <<inflight, AA, verified>>

NextRoute == Route

SpecRoute == InitRoute /\ [][NextRoute]_vars

-----------------------------------------------------------------------------
(* SpecAdmin: the administrator at work on the bookmarks.  After one login  *)
(* the calls of AdminCalls arrive with the session cookie: bookmarks are    *)
(* created, listed (whole and page by page), reordered and deleted, and the *)
(* handlers are given an id that is absent and payloads that are            *)
(* incomplete, malformed or not arrays.                                     *)

SiteBody2 == Obj([name |-> "n2", url |-> "u2", catelog |-> "c1"])
NotArrayBody == Obj(<<>>)
ReorderBodies == {Obj([orderedIds |-> ids]) : ids \in {<<2, 1>>, <<1, 3, 1>>}}

\* an id AUTOINCREMENT has not handed out
AbsentId == <<DigitSeq[MaxRows + 2]>>

AdminCalls ==
    {<<"GET", <<"/", "config">>, NoQuery, NoBody>>,
     <<"GET", <<"/", "nothing">>, NoQuery, NoBody>>,
     <<"POST", <<"/", "catalogs">>, NoQuery, NotArrayBody>>,
     <<"PUT", <<"/", "config", "/">> \o AbsentId, NoQuery, EditBody>>,
     <<"PUT", <<"/", "config", "/">> \o AbsentId \o <<"/", "toggle_privacy">>, NoQuery, NoBody>>,
     <<"DELETE", <<"/", "pending", "/">> \o AbsentId, NoQuery, NoBody>>}
    \cup {<<"GET", <<"/", "config">>, [NoQuery EXCEPT !.page = n, !.pageSize = 1], NoBody>> :
             n \in 1..2}
    \cup {<<"POST", <<"/", "config">>, NoQuery, b>> :
             b \in {SiteBody, SiteBody2, SiteBodyNoName, Malformed}}
    \cup {<<"POST", <<"/", "config", "/", "reorder">>, NoQuery, b>> :
             b \in ReorderBodies \cup {Malformed, NotArrayBody, NoBody}}
    \cup {<<"POST", <<"/", "config", "/", "import">>, NoQuery, b>> : b \in {Malformed, NotArrayBody}}
    \cup {<<"DELETE", <<"/", "config", "/">> \o i, NoQuery, NoBody>> : i \in IdTokens}

NextAdmin ==
    \/ issued = 0 /\ Login(GoodLogin)
    \/ \E req \in CallRequests(AdminCalls, {AdminCookie}) : ApiRequest(req)

SpecAdmin == Init /\ [][NextAdmin]_vars

-----------------------------------------------------------------------------
(* SpecFault: the auth gate with a session store that may fail.  One        *)
(* administrator logs in and out; /admin and the probe calls arrive with no *)
(* cookie, an unknown session and the administrator's session, while        *)
(* NAV_AUTH answers or throws.                                              *)

GateCookies == {Absent, AdminCookie, CookieOf(<<"zz">>)}

\* the requests, each with the session store answering and throwing
WithAuthFault(reqs) == {[r EXCEPT !.fault = f] : r \in reqs, f \in {"none", "NAV_AUTH"}}

AdminPageVisits ==
    {Req(m, <<"/", "admin">>, k, NoQuery, NoBody) : m \in {"GET", "POST"}, k \in GateCookies}

NextFault ==
    \/ issued = 0 /\ Login(GoodLogin)
    \/ Logout(AdminLogout)
    \/ \E req \in WithAuthFault(CallRequests(ProbeCalls, GateCookies)) : ApiRequest(req)
    \/ \E req \in WithAuthFault(AdminPageVisits) : AdminPage(req)

SpecFault == Init /\ [][NextFault]_vars

-----------------------------------------------------------------------------
(* SpecBare: a deployment whose NAV_AUTH lacks admin_username,              *)
(* admin_password or both.  Logins with every body, logouts and admin page  *)
(* views.                                                                   *)

InitBare ==
    /\ \E keys \in (SUBSET {UsernameKey, PasswordKey}) \ {{UsernameKey, PasswordKey}} :
          NAV_AUTH = [k \in keys |-> [value |-> IF k = UsernameKey THEN "admin" ELSE "secret",
                                      ttl |-> 0]]
    /\ NAV_SETTINGS = <<>>
    /\ sites = {}
    /\ catalogs = {}
    /\ pending_sites = {}
    /\ seq = [sites |-> 0, catalogs |-> 0, pending_sites |-> 0]
    /\ issued = 0
    /\ request = NoRequest
    /\ response = NoResponse
    /\ handler = "-"
    /\ protected = FALSE
    /\ kvReads = {}
    /\ loggedOut = {}
    /\ inflight = Idle
    /\ AA = <<>>
    /\ verified = {}

\* every login body, and the two whose username or password alone is null
NextBare ==
    \/ \E req \in LoginRequests \cup
                  {Req("POST", <<"/", "admin", "/", "login">>, Absent, NoQuery, b) :
                      b \in {Obj([username |-> Null, password |-> "secret"]),
                             Obj([username |-> "admin", password |-> Null])}} : Login(req)
    \/ \E req \in LogoutRequests : Logout(req)
    \/ \E req \in AdminPageRequests : AdminPage(req)

SpecBare == InitBare /\ [][NextBare]_vars

-----------------------------------------------------------------------------
(* SpecSite: the administrator's work on categories and bookmarks and the   *)
(* public page, with store calls that fail.                                 *)

SiteCalls ==
    {<<"POST", <<"/", "config">>, NoQuery, SiteBody>>,
     <<"PUT", <<"/", "config", "/", "1">>, NoQuery, EditBody>>,
     <<"POST", <<"/", "catalogs">>, NoQuery, CatalogBody>>,
     <<"PUT", <<"/", "catalogs">>, NoQuery, RenameBody>>,
     <<"PUT", <<"/", "catalogs">>, NoQuery,
       Obj([id |-> 1, oldName |-> "c2", newName |-> "c2"])>>,
     <<"DELETE", <<"/", "catalogs">>, NoQuery, CatalogBody>>,
     <<"POST", <<"/", "config", "/", "import">>, NoQuery, ImportBody>>,
     <<"GET", <<"/", "settings">>, NoQuery, NoBody>>}

\* GET / and GET /?catalog=<name>
PageRequests ==
    {Req("GET", <<"/">>, Absent, [NoQuery EXCEPT !.catalog = c], NoBody) : c \in {None, "c1", "c2"}}

NextSite ==
    \/ issued = 0 /\ Login(GoodLogin)
    \/ \E req \in CallRequests(SiteCalls, {AdminCookie}), f \in {"none", "NAV_DB", "NAV_SETTINGS"} :
          ApiRequest([req EXCEPT !.fault = f])
    \/ \E req \in PageRequests, f \in {"none", "NAV_DB", "NAV_SETTINGS"} : PublicPage([req EXCEPT !.fault = f])

SpecSite == Init /\ [][NextSite]_vars

-----------------------------------------------------------------------------
(* SpecLegacy: a store that has the sites table and not yet the catalogs    *)
(* table, the schema the catch blocks of ensureCatalogExists and of the     *)
(* frontend renderer provide for.  The administrator creates, hides and     *)
(* deletes bookmarks; visitors view the page.                               *)

InitLegacy ==
    /\ NAV_AUTH = (UsernameKey :> [value |-> "admin", ttl |-> 0])
                      @@ (PasswordKey :> [value |-> "secret", ttl |-> 0])
    /\ NAV_SETTINGS = <<>>
    /\ sites = {}
    /\ catalogs = {}
    /\ pending_sites = {}
    /\ seq = [sites |-> 0, pending_sites |-> 0]
    /\ issued = 0
    /\ request = NoRequest
    /\ response = NoResponse
    /\ handler = "-"
    /\ protected = FALSE
    /\ kvReads = {}
    /\ loggedOut = {}
    /\ inflight = Idle
    /\ AA = <<>>
    /\ verified = {}

NextLegacy ==
    \/ issued = 0 /\ Login(GoodLogin)
    \/ \E req \in CallRequests(
                    {<<"POST", <<"/", "config">>, NoQuery, SiteBody>>,
                     <<"POST", <<"/", "config">>, NoQuery, EditBody>>,
                     <<"PUT", <<"/", "config", "/", "1", "/", "toggle_privacy">>, NoQuery, NoBody>>,
                     <<"PUT", <<"/", "config", "/", "2", "/", "toggle_privacy">>, NoQuery, NoBody>>,
                     <<"DELETE", <<"/", "config", "/", "1">>, NoQuery, NoBody>>},
                    {AdminCookie}) : ApiRequest(req)
    \/ \E req \in PageRequests : PublicPage(req)

SpecLegacy == InitLegacy /\ [][NextLegacy]_vars

-----------------------------------------------------------------------------
(* SpecNotes: the notes app, src/nav-kv/v1.0.1/worker.js.  Its worker has   *)
(* one handler, fetch; callers are browser pages or any other HTTP client,  *)
(* and each may send every request.                                         *)

\* env.BB, the shared admin password
BB == "pw"

NotesReq(method, pathname, query, body, caller) ==
    [method |-> method, pathname |-> pathname, query |-> query, body |-> body,
     caller |-> caller]

\* the key userId + '_' + type of a title style
StyleKey(userId, type) == <<userId, "_", type>>

\* worker.js fetch, lines 1302-1346: the store after the request and the
\* response.  A body that does not destructure makes request.json() or the
\* destructuring throw, and nothing catches it.
fetch(caller, req) ==
    LET p == req.pathname
        b == req.body
        out == IF p \in {<<"/">>, <<"/", "admin">>}
               THEN [kv |-> AA, resp |-> Page(200, "text/html", "HTML_CONTENT")]
               ELSE IF p = <<"/", "api", "/", "getNotes">>
               THEN [kv |-> AA,
                     resp |-> [Page(200, "-", "notes") EXCEPT !.body =
                                 [notes |-> IF <<req.query.userId>> \in DOMAIN AA
                                            THEN AA[<<req.query.userId>>] ELSE "[]"]]]
               ELSE IF p = <<"/", "api", "/", "saveNotes">> /\ req.method = "POST"
               THEN IF ~Destructures(b) THEN [kv |-> AA, resp |-> Uncaught]
                    ELSE [kv |-> (<<Field(b, "userId")>> :> Field(b, "notes")) @@ AA,
                          resp |-> [Page(200, "-", "-") EXCEPT !.body = [success |-> TRUE]]]
               ELSE IF p = <<"/", "api", "/", "verifyPassword">> /\ req.method = "POST"
               THEN IF ~Destructures(b) THEN [kv |-> AA, resp |-> Uncaught]
                    ELSE [kv |-> AA,
                          resp |-> Json(IF Field(b, "password") = BB THEN 200 ELSE 403,
                                        [valid |-> Field(b, "password") = BB])]
               ELSE IF p = <<"/", "api", "/", "getStyles">>
               THEN [kv |-> AA,
                     resp |-> [Page(200, "-", "styles") EXCEPT !.body =
                                 [styles |->
                                    IF StyleKey(req.query.userId, req.query.type) \in DOMAIN AA
                                    THEN AA[StyleKey(req.query.userId, req.query.type)]
                                    ELSE "{}"]]]
               ELSE IF p = <<"/", "api", "/", "saveStyles">> /\ req.method = "POST"
               THEN IF ~Destructures(b) THEN [kv |-> AA, resp |-> Uncaught]
                    ELSE [kv |-> (StyleKey(Field(b, "userId"), Field(b, "type"))
                                      :> Field(b, "styles")) @@ AA,
                          resp |-> [Page(200, "-", "-") EXCEPT !.body = [success |-> TRUE]]]
               ELSE [kv |-> AA, resp |-> Page(404, "text/plain", "not found")]
    IN  /\ req.caller = caller
        /\ AA' = out.kv
        /\ request' = req
        /\ response' = out.resp
        /\ handler' = IF Len(p) = 4 /\ out.resp.status # 404 THEN p[4] ELSE "-"
        /\ verified' = IF p = <<"/", "api", "/", "verifyPassword">> /\ out.resp.status = 200
                       THEN verified \cup {caller} ELSE verified
        /\ protected' = FALSE
        /\ kvReads' = {}
        /\ UNCHANGED <<NAV_AUTH, NAV_SETTINGS, sites, catalogs, pending_sites, seq, issued,
                       loggedOut, inflight>>

\* two callers; every route with both methods, the bodies the pages send and
\* no body
NotesRequests ==
    {NotesReq(m, <<"/", "api", "/", h>>, [userId |-> "u1", type |-> "t1"], b, c) :
        m \in {"GET", "POST"},
        h \in {"getNotes", "saveNotes", "verifyPassword", "getStyles", "saveStyles", "nothing"},
        b \in {Obj([userId |-> "u1", notes |-> v, type |-> "t1", styles |-> v, password |-> pw]) :
                  v \in {"v1", "v2"}, pw \in {"pw", "bad"}} \cup {NoBody},
        c \in {"page1", "page2"}}
    \cup {NotesReq("GET", p, [userId |-> "u1", type |-> "t1"], NoBody, c) :
             p \in {<<"/">>, <<"/", "admin">>}, c \in {"page1", "page2"}}

NextNotes == \E req \in NotesRequests : fetch(req.caller, req)

SpecNotes == Init /\ [][NextNotes]_vars

-----------------------------------------------------------------------------
(* SpecRace: requests that overlap.  A worker serves a request until its    *)
(* next await and may serve another one meanwhile, so one request at a time *)
(* is followed store call by store call (Gate, then StoreCall for each call *)
(* of its handler) while the other requests run to completion in between.  *)

\* api.handleRequest, lines 140-151: the auth check and the dispatch; the
\* handler then suspends at its first await
Gate(req) ==
    /\ inflight = Idle
    /\ StartsWith(req.pathname, <<"/", "api">>)
    /\ LET path == ApiPath(req.pathname)
           isProt == isProtected(req.method, path)
           auth == IF isProt THEN checkAuth(req.cookie, req.fault, NAV_AUTH)
                   ELSE [ok |-> TRUE, reads |-> {}]
           h == Dispatch(req.method, path, LastSegment(req.pathname))
           denied == isProt /\ ~auth.ok
       IN  /\ response' = IF denied THEN errorResponse("Unauthorized", 401) ELSE NoResponse
           /\ handler' = IF denied THEN "-" ELSE h
           /\ inflight' = IF denied THEN Idle
                          ELSE [pc |-> "dispatched", req |-> req, h |-> h, results |-> {}]
           /\ protected' = isProt
           /\ kvReads' = auth.reads
    /\ request' = req
    /\ UNCHANGED <<NAV_AUTH, NAV_SETTINGS, sites, catalogs, pending_sites, seq, issued,
                   loggedOut, AA, verified>>

\* The next store call of the suspended handler.  approvePendingConfig
\* (lines 357-383) makes four: the SELECT, ensureCatalogExists, the INSERT
\* and the DELETE; the other handlers sent here make one call, a single
\* statement or one batch, and answer.
StoreCall ==
    /\ inflight.pc # "idle"
    /\ LET req == inflight.req
           h == inflight.h
           id == LastSegment(req.pathname)
           pc == inflight.pc
           stepwise == h = "approvePendingConfig" /\ req.fault = "none"
           found == {r \in pending_sites : r.id = ToInt(id)}
           config == CHOOSE r \in inflight.results : TRUE
           out == IF ~stepwise THEN Handle(h, Store, req, ApiPath(req.pathname), id)
                  ELSE IF pc = "dispatched"
                  THEN Out(Store, IF found = {} THEN errorResponse("Pending config not found", 404)
                                  ELSE NoResponse)
                  ELSE IF pc = "selected"
                  THEN Out(ensureCatalogExists(Store, config.catelog), NoResponse)
                  ELSE IF pc = "ensured"
                  THEN Out(InsertSite(Store, config.name, config.url, config.catelog, 0, 0),
                           NoResponse)
                  ELSE Out([Store EXCEPT !.pending_sites = {r \in @ : r.id # ToInt(id)}],
                           Json(200, [code |-> 200,
                                      message |-> "Pending config approved successfully"]))
       IN  /\ WithinRows(out.st)
           /\ SetStore(out.st)
           /\ response' = out.resp
           /\ inflight' = IF out.resp # NoResponse THEN Idle
                          ELSE [inflight EXCEPT
                                  !.pc = IF pc = "dispatched" THEN "selected"
                                         ELSE IF pc = "selected" THEN "ensured" ELSE "inserted",
                                  !.results = IF pc = "dispatched" THEN found ELSE @]
           /\ request' = req
           /\ handler' = h
           /\ protected' = isProtected(req.method, ApiPath(req.pathname))
    /\ kvReads' = {}
    /\ UNCHANGED <<NAV_AUTH, issued, loggedOut, AA, verified>>

\* Between two store calls of the request that is followed, a submit, an
\* approve or a reject runs to completion.  The requests followed are an
\* approve, a delete and the four multi-row writes.
NextRace ==
    \/ issued = 0 /\ Login(GoodLogin)
    \/ Logout(AdminLogout)
    \/ \E req \in CallRequests(
                    {<<"POST", <<"/", "config", "/", "submit">>, NoQuery, SiteBody>>,
                     <<"PUT", <<"/", "pending", "/", "1">>, NoQuery, NoBody>>,
                     <<"PUT", <<"/", "pending", "/", "2">>, NoQuery, NoBody>>,
                     <<"DELETE", <<"/", "pending", "/", "1">>, NoQuery, NoBody>>},
                    {AdminCookie}) : ApiRequest(req)
    \/ \E req \in CallRequests(
                    {<<"PUT", <<"/", "pending", "/", "1">>, NoQuery, NoBody>>,
                     <<"DELETE", <<"/", "config", "/", "1">>, NoQuery, NoBody>>,
                     <<"POST", <<"/", "config", "/", "reorder">>, NoQuery, ReorderBody>>,
                     <<"POST", <<"/", "catalogs", "/", "reorder">>, NoQuery, ReorderNamesBody>>,
                     <<"PUT", <<"/", "catalogs">>, NoQuery, RenameBody>>,
                     <<"DELETE", <<"/", "catalogs">>, NoQuery, CatalogBody>>},
                    {AdminCookie}),
             f \in {"none", "NAV_DB"} : Gate([req EXCEPT !.fault = f])
    \/ StoreCall

SpecRace == Init /\ [][NextRace]_vars

-----------------------------------------------------------------------------
(* Properties *)

\* the last step handled a request that fetch routed to api.handleRequest
IsApi(req) == StartsWith(req.pathname, <<"/", "api">>)

\* the session identifier a Cookie header presents, Absent when it has none
Presented(cookieHeader) ==
    IF Falsy(cookieHeader) THEN Absent
    ELSE IF Falsy(SessionIdOf(cookieHeader)) THEN Absent
    ELSE SessionIdOf(cookieHeader)

\* the session store holds a "valid" record for the identifier
HoldsValid(kv, sessionId) ==
    /\ sessionId # Absent
    /\ SessionKey(sessionId) \in DOMAIN kv
    /\ kv[SessionKey(sessionId)].value = "valid"

IsSessionKey(key) == key # <<>> /\ Head(key) = "session:"
Tables == <<sites, catalogs, pending_sites, seq, NAV_SETTINGS>>

\* C1: a request for a protected route that has no Cookie header, no
\* sessionId in its cookie or no "valid" record for its sessionId is answered
\* 401 {code: 401, message: "Unauthorized"}, no handler runs, and the tables
\* and the settings store are as before.
C1_DeniedBeforeHandler ==
    [][(/\ IsApi(request')
        /\ protected'
        /\ ~HoldsValid(NAV_AUTH, Presented(request'.cookie)))
       => (/\ response' = Json(401, [code |-> 401, message |-> "Unauthorized"])
           /\ handler' = "-"
           /\ UNCHANGED Tables)]_vars

\* a DELETE of an existing bookmark, presented with a session that has
\* ended, was answered 401
C1_Witness ==
    /\ IsApi(request) /\ protected
    /\ request.method = "DELETE"
    /\ ApiPath(request.pathname) = <<"/", "config", "/", "1">>
    /\ request.cookie = AdminCookie
    /\ ~HoldsValid(NAV_AUTH, Presented(request.cookie))
    /\ \E r \in sites : r.id = 1
    /\ response.status = 401

\* the handlers that write the sites table, the catalogs table or the
\* settings store, or that approve or reject a pending site
MutatingHandlers ==
    {"updateSettings", "createCatalog", "updateCatalog", "deleteCatalog", "reorderCatalogs",
     "migrateCatalogs", "toggleCatalogPrivacy", "createConfig", "reorderConfig",
     "deleteAllConfigs", "updateConfig", "deleteConfig", "toggleSitePrivacy",
     "approvePendingConfig", "rejectPendingConfig", "importConfig", "importCategory"}

\* C2: whenever the dispatch chain routes a method and path to a handler
\* that writes sites, catalogs or settings, or approves or rejects a pending
\* site, the route matcher classified that method and path as protected;
\* submitConfig, which appends to the pending queue, is public.
C2_WritesAreProtected ==
    /\ handler \in MutatingHandlers => protected
    /\ handler = "submitConfig" => ~protected

C2_Witness ==
    /\ handler = "toggleCatalogPrivacy" /\ protected
    /\ ApiPath(request.pathname) = <<"/", "catalogs", "/", "4", "2", "/", "toggle_privacy">>

\* the handlers that answer with a list of table rows in the data member
RowHandlers == {"getConfig", "getPrivateConfig", "getPendingConfig", "exportConfig",
                "exportCategory", "getCatalogs"}

\* the rows the last response carries
DataRows ==
    IF handler \in RowHandlers /\ "data" \in DOMAIN response.body
    THEN {response.body.data[i] : i \in 1..Len(response.body.data)} ELSE {}
IsBookmark(row) == {"url", "is_private"} \subseteq DOMAIN row
IsPendingRow(row) == "url" \in DOMAIN row /\ "is_private" \notin DOMAIN row

\* C3: no API response to a request without a valid session carries a
\* bookmark whose is_private is 1 or a row of the pending queue.
C3_NoPrivateDataWithoutSession ==
    (IsApi(request) /\ ~HoldsValid(NAV_AUTH, Presented(request.cookie)))
    => \A row \in DataRows :
          /\ ~IsPendingRow(row)
          /\ IsBookmark(row) => row.is_private = 0

\* C4: once the logout of a valid session s has completed, every protected
\* API request that presents s is denied with 401.
C4_LoggedOutIsDenied ==
    (IsApi(request) /\ protected /\ Presented(request.cookie) \in loggedOut)
    => (response.status = 401 /\ handler = "-")

C4_Witness ==
    /\ IsApi(request) /\ protected
    /\ request.cookie = CookieOf(<<"s1">>)
    /\ <<"s1">> \in loggedOut
    /\ response.status = 401

\* C5: a login whose username or password differs from the configured value
\* writes nothing to the session store and sets no cookie; when its body is
\* a JSON object (members may be missing or null) it is answered 401 with
\* the generic message "Invalid username or password".
C5_BadLoginCreatesNothing ==
    [][(/\ handler' = "handleLogin"
        /\ \/ Field(request'.body, "username") # KvGet(NAV_AUTH, UsernameKey)
           \/ Field(request'.body, "password") # KvGet(NAV_AUTH, PasswordKey))
       => (/\ response'.status # 200
           /\ response'.setCookie = NoSetCookie
           /\ NAV_AUTH' = NAV_AUTH
           /\ issued' = issued
           /\ request'.body.json = "object"
                  => /\ response'.status = 401
                     /\ response'.body = [success |-> FALSE,
                                          message |-> "Invalid username or password"])]_vars

\* the right username with a wrong password was refused while a session of
\* an earlier login was in the store
C5_Witness ==
    /\ handler = "handleLogin"
    /\ request.body.json = "object"
    /\ Field(request.body, "username") = "admin"
    /\ Field(request.body, "password") = "wrong"
    /\ response.status = 401
    /\ \E key \in DOMAIN NAV_AUTH : IsSessionKey(key)

\* C6: a successful login sets Max-Age=86400 for remember=false and
\* Max-Age=2592000 for remember=true, and stores session:<token> -> "valid"
\* with an expiry equal to the cookie's Max-Age.
C6_CookieAndTtlAgree ==
    (handler = "handleLogin" /\ response.status = 200)
    => LET cookie == response.setCookie
           body == request.body
       IN  /\ cookie.name = "sessionId" /\ cookie.HttpOnly /\ cookie.Secure /\ cookie.Path = "/"
           /\ ("remember" \in DOMAIN body /\ body.remember) => cookie.MaxAge = 2592000
           /\ ("remember" \in DOMAIN body /\ ~body.remember) => cookie.MaxAge = 86400
           /\ SessionKey(cookie.value) \in DOMAIN NAV_AUTH
           /\ NAV_AUTH[SessionKey(cookie.value)] = [value |-> "valid", ttl |-> cookie.MaxAge]

C6_Witness ==
    /\ handler = "handleLogin" /\ response.status = 200
    /\ "remember" \in DOMAIN request.body /\ request.body.remember
    /\ response.setCookie.MaxAge = 2592000
    /\ issued = 2

\* C7: a session record is absent or "valid".  It appears only in a
\* successful login, under the identifier that login generated; it
\* disappears only in a logout that presents its identifier or by expiry in
\* the store; no step changes it otherwise, and no session key holds
\* another value.
C7_SessionLifecycle ==
    [][\A key \in {k \in DOMAIN NAV_AUTH \cup DOMAIN NAV_AUTH' : IsSessionKey(k)} :
         /\ (key \notin DOMAIN NAV_AUTH)
                => /\ handler' = "handleLogin" /\ response'.status = 200
                   /\ key = SessionKey(response'.setCookie.value)
         /\ (key \notin DOMAIN NAV_AUTH')
                => \/ handler' = "handleLogout" /\ key = SessionKey(Presented(request'.cookie))
                   \/ request'.method = "<ttl expiry>"
         /\ (key \in DOMAIN NAV_AUTH /\ key \in DOMAIN NAV_AUTH')
                => NAV_AUTH'[key] = NAV_AUTH[key]
         /\ (key \in DOMAIN NAV_AUTH') => NAV_AUTH'[key].value = "valid"]_vars

\* one session expired after another had been logged out
C7_Witness ==
    /\ request.method = "<ttl expiry>"
    /\ loggedOut # {}
    /\ issued = 2
    /\ \A key \in DOMAIN NAV_AUTH : ~IsSessionKey(key)

\* C8: every logout is answered with success and a Set-Cookie header that
\* clears the cookie (empty sessionId, Max-Age=0), whether the Cookie header
\* is absent, has no sessionId, or names a session that never existed or is
\* already deleted.
C8_LogoutAlwaysClears ==
    handler = "handleLogout"
    => /\ response.status = 200
       /\ response.body = [success |-> TRUE, message |-> "Logged out"]
       /\ response.setCookie.name = "sessionId"
       /\ response.setCookie.value = <<>>
       /\ response.setCookie.MaxAge = 0

\* a logout naming a session that never existed, while another session is
\* in the store and one has been logged out
C8_Witness ==
    /\ handler = "handleLogout"
    /\ request.cookie = CookieOf(<<"zz">>)
    /\ loggedOut # {}
    /\ \E key \in DOMAIN NAV_AUTH : IsSessionKey(key)
    /\ response.setCookie = ClearedCookie

\* C9: the auth gate authorizes exactly when the Cookie header yields a
\* sessionId and the store value under session:<sessionId> is "valid"; with
\* no header or no sessionId it denies without a look at the store.
C9_AuthorizedIffValid ==
    LET valid == HoldsValid(NAV_AUTH, Presented(request.cookie)) IN
    /\ handler = "checkAuth" => (response.body.page = "renderAdminPage" <=> valid)
    /\ (IsApi(request) /\ protected) => ((handler # "-" /\ response.status # 401) <=> valid)
    /\ (handler = "checkAuth" \/ (IsApi(request) /\ protected))
           => (Presented(request.cookie) = Absent => kvReads = {})

\* the admin page was served for a header with a second cookie before the
\* session cookie
C9_Witness ==
    /\ handler = "checkAuth"
    /\ request.cookie = <<"theme", "=", "dark", ";", " ">> \o CookieOf(<<"s1">>)
    /\ response.body.page = "renderAdminPage"

\* a pattern matches a path segment by segment: the same number of
\* segments, a literal segment equal, a placeholder segment all digits
SegmentwiseMatch(pattern, path) ==
    LET ps == Split(pattern, "/")
        xs == Split(path, "/")
    IN  /\ Len(ps) = Len(xs)
        /\ \A i \in 1..Len(ps) :
              IF ps[i] = <<DigitsMarker>> THEN AllDigits(xs[i]) ELSE ps[i] = xs[i]

PlainIdPattern == <<"/", "config", "/", DigitsMarker>>

\* C10: a request is protected only when an entry has its method and the
\* entry's pattern matches the whole path, the placeholder standing for one
\* segment of one or more digits; for PUT and DELETE /config/42 matches the
\* plain id pattern, /config/abc matches nothing, and
\* /config/42/toggle_privacy matches the toggle pattern (PUT) and never the
\* plain id pattern.
C10_AnchoredRouteMatch ==
    handler # "?" =>
    LET m == request.method
        path == ApiPath(request.pathname)
    IN  /\ protected => \E r \in 1..Len(protectedRoutes) :
                           /\ protectedRoutes[r][1] = m
                           /\ SegmentwiseMatch(protectedRoutes[r][2], path)
        /\ (m \in {"PUT", "DELETE"} /\ path = <<"/", "config", "/", "4", "2">>)
               => (protected /\ RouteMatches(<<m, PlainIdPattern>>, m, path))
        /\ (m \in {"PUT", "DELETE"} /\ path = <<"/", "config", "/", "a", "b", "c">>)
               => ~protected
        /\ (m \in {"PUT", "DELETE"}
                /\ path = <<"/", "config", "/", "4", "2", "/", "toggle_privacy">>)
               => /\ protected <=> m = "PUT"
                  /\ ~RouteMatches(<<m, PlainIdPattern>>, m, path)

C10_Witness ==
    /\ handler = "toggleSitePrivacy" /\ protected
    /\ request.method = "PUT"
    /\ ApiPath(request.pathname) = <<"/", "config", "/", "4", "2", "/", "toggle_privacy">>

\* the public routes the interface names: method, path, handler, status
PublicExamples ==
    {<<"GET", <<"/", "config">>, "getConfig", 200>>,
     <<"GET", <<"/", "catalogs">>, "getCatalogs", 200>>,
     <<"GET", <<"/", "settings">>, "getSettings", 200>>,
     <<"POST", <<"/", "config", "/", "submit">>, "submitConfig", 201>>}

\* C11: an API request for a route that is not protected goes to the handler
\* the dispatch chain selects, is never answered 401 and causes no read of
\* the session store; GET /config, GET /catalogs, GET /settings and a
\* complete POST /config/submit without a Cookie header reach their handlers
\* and succeed.
C11_PublicRoutesSkipTheGate ==
    IsApi(request) =>
    LET path == ApiPath(request.pathname) IN
    /\ ~protected => /\ response.status # 401
                     /\ kvReads = {}
                     /\ handler = Dispatch(request.method, path, LastSegment(request.pathname))
    /\ \A e \in PublicExamples :
          (request.method = e[1] /\ path = e[2] /\ request.cookie = Absent
                /\ request.body \in {NoBody, SiteBody})
          => (~protected /\ handler = e[3] /\ response.status = e[4])

\* the bookmark list was served to a request without a Cookie header
C11_Witness ==
    /\ request.method = "GET"
    /\ request.pathname = Api(<<"/", "config">>)
    /\ request.cookie = Absent
    /\ handler = "getConfig" /\ response.status = 200
    /\ sites # {}
    /\ kvReads = {}

\* C12: sessions coexist.  A successful login adds exactly one session
\* record, under the identifier of its cookie, and leaves every record
\* already in the store as it was; a logout leaves every session record
\* other than the one it presents in the store, as it was and authorizing.
C12_SessionsCoexist ==
    [][/\ (handler' = "handleLogin" /\ response'.status = 200)
            => /\ \A key \in DOMAIN NAV_AUTH :
                     key \in DOMAIN NAV_AUTH' /\ NAV_AUTH'[key] = NAV_AUTH[key]
               /\ DOMAIN NAV_AUTH' \ DOMAIN NAV_AUTH = {SessionKey(response'.setCookie.value)}
       /\ handler' = "handleLogout"
            => \A key \in DOMAIN NAV_AUTH :
                  (IsSessionKey(key) /\ key # SessionKey(Presented(request'.cookie)))
                  => /\ key \in DOMAIN NAV_AUTH' /\ NAV_AUTH'[key] = NAV_AUTH[key]
                     /\ checkAuth(CookieOf(Tail(key)), "none", NAV_AUTH').ok]_vars

\* the first session was logged out while the second stayed in the store
C12_Witness ==
    /\ handler = "handleLogout"
    /\ Presented(request.cookie) = <<"s1">>
    /\ <<"s1">> \in loggedOut
    /\ SessionKey(<<"s1">>) \notin DOMAIN NAV_AUTH
    /\ HoldsValid(NAV_AUTH, <<"s2">>)

\* the rows in the data member of a list response
RowsOf(resp) == {resp.body.data[i] : i \in 1..Len(resp.body.data)}

\* the bookmarks that come before a bookmark in the list GET /config pages
\* through (ascending sort_order), and those that share its sort_order
Before(row, rows) == Cardinality({q \in rows : q.sort_order < row.sort_order})
Ties(row, rows) == Cardinality({q \in rows : q.sort_order = row.sort_order /\ q # row})
Min(a, b) == IF a < b THEN a ELSE b

\* GET /config without catalog or keyword answered 200
ListsAll(req, resp, h) ==
    /\ h = "getConfig" /\ resp.status = 200
    /\ req.query.catalog = None /\ req.query.keyword = None

PositionsOf(id, ids) == {i \in 1..Len(ids) : ids[i] = id}

\* C14: after a POST /config/reorder answered 200, every bookmark whose id
\* is in the list has as sort_order the 1-based position of its id in the
\* list (the last one when the list names the id twice); the bookmarks not
\* in the list, and every other column, are as before.
C14_ReorderSetsPositions ==
    [][(handler' = "reorderConfig" /\ response'.status = 200)
       => LET ids == request'.body.orderedIds IN
          /\ {r.id : r \in sites'} = {r.id : r \in sites}
          /\ Cardinality(sites') = Cardinality(sites)
          /\ \A r \in sites : \E n \in sites' :
                /\ n.id = r.id
                /\ n = [r EXCEPT !.sort_order = n.sort_order]
                /\ IF PositionsOf(r.id, ids) = {} THEN n.sort_order = r.sort_order
                   ELSE /\ n.sort_order \in PositionsOf(r.id, ids)
                        /\ \A i \in PositionsOf(r.id, ids) : i <= n.sort_order]_vars

\* two bookmarks created in the order 1, 2 and reordered as 2, 1
C14_Witness ==
    /\ handler = "reorderConfig" /\ response.status = 200
    /\ request.body.orderedIds = <<2, 1>>
    /\ \E r \in sites : r.id = 1 /\ r.sort_order = 2
    /\ \E r \in sites : r.id = 2 /\ r.sort_order = 1

\* C15: a request to /admin gets the admin view exactly when its cookie
\* names a session whose record is "valid" and the store answers the read;
\* with no cookie, an unknown or logged-out session, or a store read that
\* fails, it gets the login form.
C15_AdminViewIffValidSession ==
    handler = "checkAuth"
    => /\ request.pathname = <<"/", "admin">>
       /\ response = IF HoldsValid(NAV_AUTH, Presented(request.cookie))
                          /\ request.fault # "NAV_AUTH"
                     THEN Page(200, "text/html", "renderAdminPage")
                     ELSE Page(200, "text/html", "renderLoginPage")

\* the administrator, logged in, got the login form because the store read
\* failed
C15_Witness ==
    /\ handler = "checkAuth"
    /\ request.cookie = AdminCookie /\ request.fault = "NAV_AUTH"
    /\ HoldsValid(NAV_AUTH, Presented(request.cookie))
    /\ response.body.page = "renderLoginPage"

\* C16: every error response (status 400 and above) is JSON and its body
\* carries a numeric code and a message.
C16_ErrorsCarryCodeAndMessage ==
    response.status >= 400
    => /\ response.type = "application/json"
       /\ {"code", "message"} \subseteq DOMAIN response.body
       /\ response.body.code \in Nat

\* the handlers that act on the row of an id in the path, and the ids their
\* table holds
IdHandlers == {"updateConfig", "deleteConfig", "toggleSitePrivacy", "toggleCatalogPrivacy",
               "approvePendingConfig", "rejectPendingConfig"}
IdsHeld(h) ==
    IF h \in {"updateConfig", "deleteConfig", "toggleSitePrivacy"} THEN {r.id : r \in sites}
    ELSE IF h = "toggleCatalogPrivacy" THEN {r.id : r \in catalogs}
    ELSE {r.id : r \in pending_sites}
ReferencedId(req, h) ==
    IF h \in {"toggleSitePrivacy", "toggleCatalogPrivacy"}
    THEN ToInt(Segment2(ApiPath(req.pathname)))
    ELSE ToInt(LastSegment(req.pathname))

\* C17: an API request for a route the dispatch chain does not know is
\* answered 404, and an update, delete, privacy toggle, approve or reject
\* whose id is not in its table is answered 404 and leaves the tables and
\* the settings as they were.
C17_AbsentIdIsNotFound ==
    [][/\ handler' = NotFound => response'.status = 404
       /\ (handler' \in IdHandlers /\ ReferencedId(request', handler') \notin IdsHeld(handler'))
            => (response'.status = 404 /\ UNCHANGED Tables)]_vars

\* a create, submit or category request whose JSON object lacks a field the
\* handler requires
LacksRequired(req, h) ==
    /\ req.body.json = "object"
    /\ \/ /\ h \in {"createConfig", "submitConfig"}
          /\ \E f \in {"name", "url", "catelog"} : FalsyStr(Field(req.body, f))
       \/ h = "createCatalog" /\ FalsyStr(Field(req.body, "name"))

\* a reorder or import request whose payload does not parse or holds no array
BadPayload(req, h) ==
    \/ h \in {"reorderConfig", "reorderCatalogs", "importConfig"} /\ ~Parses(req.body)
    \/ h = "reorderConfig" /\ ~IsArrayField(req.body, "orderedIds")
    \/ h = "reorderCatalogs" /\ ~IsArrayField(req.body, "orderedNames")
    \/ h = "importConfig" /\ req.body.json # "array"

\* C18: a create, submit or category request that lacks a required field,
\* and a reorder or import request whose payload is malformed JSON or not an
\* array, is answered 400 and writes nothing to the store.
C18_InvalidPayloadIs400 ==
    [][(LacksRequired(request', handler') \/ BadPayload(request', handler'))
         => (response'.status = 400 /\ UNCHANGED Tables)]_vars

\* C19: when the read of the session store throws during an auth check, the
\* check denies and nothing is thrown to the caller: a protected API request
\* is answered 401 Unauthorized by the gate, whatever the session record
\* says, and /admin shows the login form.
C19_StoreFailureIsDeny ==
    (request.fault = "NAV_AUTH" /\ kvReads # {})
    => /\ (IsApi(request) /\ protected)
            => (response = errorResponse("Unauthorized", 401) /\ handler = "-")
       /\ request.pathname = <<"/", "admin">>
            => response = Page(200, "text/html", "renderLoginPage")

\* the administrator, logged in, is refused a protected API call because the
\* store read failed
C19_Witness ==
    /\ request.fault = "NAV_AUTH" /\ kvReads # {}
    /\ IsApi(request) /\ protected
    /\ request.cookie = AdminCookie
    /\ HoldsValid(NAV_AUTH, Presented(request.cookie))
    /\ response.status = 401

\* a step in which checkAuth ran: the API gate of a protected route, or the
\* /admin page
GateRan == handler' = "checkAuth" \/ (IsApi(request') /\ protected')

\* C20: the auth gate only reads the session store: a step in which
\* checkAuth runs, whether it allows or denies, leaves every key, value and
\* ttl of NAV_AUTH as it was, so the valid sessions are the same before and
\* after.
C20_GateIsReadOnly ==
    [][GateRan => NAV_AUTH' = NAV_AUTH]_vars

\* the check has just admitted a session to the admin view, and that session
\* and another are both still in the store
C20_Witness ==
    /\ handler = "checkAuth"
    /\ response.body.page = "renderAdminPage"
    /\ kvReads = {SessionKey(Presented(request.cookie))}
    /\ kvReads \subseteq DOMAIN NAV_AUTH
    /\ \E k \in DOMAIN NAV_AUTH : k \notin kvReads

\* the position of the first "=" of a cookie pair, 0 when it has none
FirstEq(pair) ==
    IF \E i \in 1..Len(pair) : pair[i] = "="
    THEN CHOOSE i \in 1..Len(pair) : pair[i] = "=" /\ \A j \in 1..(i - 1) : pair[j] # "="
    ELSE 0

\* the value of the sessionId pair when each pair is split on its first "="
\* only: all the text after it
RECURSIVE WholeValue(_, _)
WholeValue(pairs, acc) ==
    IF pairs = <<>> THEN acc
    ELSE LET pair == Trim(Head(pairs))
             i == FirstEq(pair)
         IN  WholeValue(Tail(pairs),
                        IF i > 0 /\ SubSeq(pair, 1, i - 1) = <<"sessionId">>
                        THEN SubSeq(pair, i + 1, Len(pair)) ELSE acc)
WholeSessionId(cookieHeader) ==
    IF Falsy(cookieHeader) THEN Absent ELSE WholeValue(Split(cookieHeader, ";"), Absent)

\* C23: the session identifier the auth check looks up in the store is the
\* entire text after the first "=" of the sessionId pair of the Cookie
\* header, further "=" characters included.
C23_LookupUsesWholeValue ==
    (handler = "checkAuth" \/ (IsApi(request) /\ protected))
    => kvReads = IF Falsy(WholeSessionId(request.cookie)) THEN {}
                 ELSE {SessionKey(WholeSessionId(request.cookie))}

\* the configured credentials: the two credential keys and their records
Credentials(kv) == [k \in {UsernameKey, PasswordKey} \cap DOMAIN kv |-> kv[k]]

\* C27: no request modifies the configured admin credentials: every step
\* (login, logout with any sessionId value, admin page, API request, ttl
\* expiry) leaves the records of admin_username and admin_password as they
\* were, and every key a step removes from NAV_AUTH has the session: prefix.
C27_CredentialsUntouched ==
    [][/\ Credentials(NAV_AUTH') = Credentials(NAV_AUTH)
       /\ \A k \in DOMAIN NAV_AUTH \ DOMAIN NAV_AUTH' : IsSessionKey(k)]_vars

\* a logout whose cookie names a credential key was answered 200, sessions
\* have been created and ended, and both credentials are still in the store
C27_Witness ==
    /\ handler = "handleLogout" /\ response.status = 200
    /\ request.cookie = CredentialCookie
    /\ issued > 0 /\ loggedOut # {}
    /\ DOMAIN Credentials(NAV_AUTH) = {UsernameKey, PasswordKey}

\* C24: while admin_username or admin_password is absent from the store, no
\* login request, whatever its JSON body, creates a session record or
\* receives a session cookie.
C24_NoLoginWithoutCredentials ==
    ({UsernameKey, PasswordKey} \ DOMAIN NAV_AUTH # {})
    => /\ \A k \in DOMAIN NAV_AUTH : ~IsSessionKey(k)
       /\ handler = "handleLogin"
            => (response.status # 200 /\ response.setCookie = NoSetCookie)

\* handlers whose first statement is a NAV_DB call, with nothing validated
\* before it
DbFirstHandlers == {"getConfig", "deleteConfig", "deleteAllConfigs", "exportConfig",
                    "getCatalogs", "migrateCatalogs", "getPendingConfig", "getPrivateConfig"}

\* a store call of the last request's handler failed
StoreCallFailed ==
    \/ handler = "handleRequest" /\ request.fault \in {"NAV_SETTINGS", "NAV_DB"}
    \/ handler = "getSettings" /\ request.fault = "NAV_SETTINGS"
    \/ handler \in DbFirstHandlers /\ request.fault = "NAV_DB"
    \/ handler = "handleLogin" /\ Destructures(request.body) /\ request.fault = "NAV_AUTH"
    \/ handler = "handleLogout" /\ LogoutTarget(request.cookie) # Absent
           /\ request.fault = "NAV_AUTH"

\* C21: every failure of a store call while a handler serves a request (API,
\* admin or public page) ends in a response of status 500 that the code
\* produced: no store exception leaves fetch.
C21_StoreFailureIs500 ==
    StoreCallFailed => (response.status = 500 /\ response # Uncaught)

\* C29: every bookmark with a non-empty category name has a row of that
\* name in the catalogs table, after any sequence of API operations.
C29_EveryBookmarkHasItsCategory ==
    \A r \in sites : ~FalsyStr(r.catelog) => \E c \in catalogs : c.name = r.catelog

\* C28: the public page never shows a private bookmark: every bookmark it
\* renders has is_private = 0 and belongs to no private category, no private
\* category is in the sidebar, and the count is that of the rendered public
\* bookmarks.
C28_PageShowsNoPrivateBookmark ==
    (handler = "handleRequest" /\ response.status = 200)
    => /\ \A i \in 1..Len(response.body.sites) :
             /\ response.body.sites[i].is_private = 0
             /\ \A c \in catalogs : c.name = response.body.sites[i].catelog => c.is_private = 0
       /\ \A i \in 1..Len(response.body.catalogs) :
             \A c \in catalogs : c.name = response.body.catalogs[i] => c.is_private = 0
       /\ response.body.count <= Cardinality({r \in sites : r.is_private = 0})

\* C30: in the notes app, /api/verifyPassword answers 200 with valid = true
\* exactly when the submitted password equals the configured secret and 403
\* otherwise, and the stored notes and title styles change only on a request
\* of a caller who has passed that check.
C30_WritesOnlyAfterPassword ==
    [][/\ (handler' = "verifyPassword" /\ request'.method = "POST"
              /\ Destructures(request'.body))
            => /\ response'.status = IF Field(request'.body, "password") = BB THEN 200 ELSE 403
               /\ response'.body.valid = (Field(request'.body, "password") = BB)
       /\ AA' # AA => request'.caller \in verified]_vars

\* the step is a store call of the suspended request
IsStoreCall == inflight.pc # "idle" /\ inflight' # inflight

\* C25: a request authorized by session s writes nothing to sites, catalogs,
\* pending_sites or the settings after a logout of s has completed: no store
\* call of a protected request changes the tables once its session has been
\* logged out.
C25_NoWriteAfterLogout ==
    [][(/\ IsStoreCall
        /\ isProtected(inflight.req.method, ApiPath(inflight.req.pathname))
        /\ Tables' # Tables)
         => Presented(inflight.req.cookie) \notin loggedOut]_vars

\* C26: a pending submission is promoted at most once and never after it
\* was rejected or promoted: the bookmark rows ever inserted (the only
\* inserts here are promotions) never outnumber the submissions ever made, a
\* bookmark row is inserted only for an id that is still in pending_sites,
\* and when an approve answers 200 that id is no longer in pending_sites.
C26_PromotedAtMostOnce ==
    [][/\ seq'.sites <= seq'.pending_sites
       /\ seq'.sites > seq.sites
            => \E r \in pending_sites : r.id = ToInt(LastSegment(request'.pathname))
       /\ (handler' = "approvePendingConfig" /\ response'.status = 200)
            => /\ \A r \in pending_sites' : r.id # ToInt(LastSegment(request'.pathname))
               /\ sites' # {}]_vars

\* the handlers that write several rows with one env.NAV_DB.batch call
BatchHandlers == {"reorderConfig", "reorderCatalogs", "updateCatalog", "deleteCatalog"}

\* C22: a bulk reorder, a category rename with its re-labelling and a
\* category delete with its bookmarks are applied all or nothing: the store
\* call of such a request is its only one (the request answers in the same
\* step, so no other request runs between two of its writes), an answer 200
\* comes with every row written, and any other answer leaves the tables as
\* they were.
C22_BatchesAreAtomic ==
    [][(IsStoreCall /\ inflight.h \in BatchHandlers)
       => LET b == inflight.req.body
              h == inflight.h
          IN  /\ inflight' = Idle
              /\ response'.status # 200 => UNCHANGED Tables
              /\ (response'.status = 200 /\ h = "reorderConfig")
                   => \A r \in sites' : PositionsOf(r.id, b.orderedIds) # {}
                          => r.sort_order \in PositionsOf(r.id, b.orderedIds)
              /\ (response'.status = 200 /\ h = "reorderCatalogs")
                   => \A c \in catalogs' :
                          (\E i \in 1..Len(b.orderedNames) : b.orderedNames[i] = c.name)
                          => b.orderedNames[c.sort_order] = c.name
              /\ (response'.status = 200 /\ h = "updateCatalog")
                   => /\ \A c \in catalogs' : c.id = b.id => c.name = b.newName
                      /\ b.oldName # b.newName
                           => /\ \A r \in sites' : r.catelog # b.oldName
                              /\ \A r \in sites : r.catelog = b.oldName
                                    => [r EXCEPT !.catelog = b.newName] \in sites'
              /\ (response'.status = 200 /\ h = "deleteCatalog")
                   => /\ \A c \in catalogs' : c.name # b.name
                      /\ \A r \in sites' : r.catelog # b.name]_vars

\* a rename has been answered 200: the category has its new name and a
\* bookmark carries it
C22_Witness ==
    /\ handler = "updateCatalog" /\ inflight = Idle
    /\ response.status = 200
    /\ \E r \in sites : r.catelog = request.body.newName
    /\ \E c \in catalogs : c.id = request.body.id /\ c.name = request.body.newName

=============================================================================
